---- MODULE Spec2Model ----
(***************************************************************************)
(* A model of the binpack codec: the chess core (make-move, attacks,       *)
(* pseudo-legal moves), the 24-byte position and 16-bit move codecs, the   *)
(* 32-byte packed stem, the bit stream, the chain writer and the chain     *)
(* reader with the BINP chunk framing.                                     *)
(*                                                                         *)
(* Bitboards (u64) are sets of squares 0..63; bytes are 0..255; i16 values *)
(* are integers -32768..32767 and u16 values 0..65535.                     *)
(***************************************************************************)
EXTENDS Integers, Sequences, FiniteSets, TLC

\* ------------------------------------------------------------------------
\* Bounds of the model
\* ------------------------------------------------------------------------

\* Writes a writer session may perform.
MaxWrites == 3

\* Writer sessions that may append to the same byte stream.
MaxSessions == 2

\* Moves that may be played off the scripted lines when positions are explored.
FreePlies == 1

\* The chunk-size threshold of the writer, scaled down from the program's
\* 1 MiB (compressed_writer.rs line 19) so that a session of MaxWrites
\* samples crosses it.
SUGGESTED_CHUNK_SIZE == 64

\* ------------------------------------------------------------------------
\* Fixed-width integers and bit operations
\* ------------------------------------------------------------------------

Pow2(n) == 2 ^ n

\* a as u16, for an i16 a
AsU16(a) == a % 65536

\* u as i16, for a u16 u
AsI16(u) == IF u >= 32768 THEN u - 65536 ELSE u

\* i16 wrapping arithmetic
WrappingSub16(a, b) == AsI16((a - b) % 65536)
WrappingAdd16(a, b) == AsI16((a + b) % 65536)
WrappingNeg16(a) == AsI16((0 - a) % 65536)

RECURSIVE BitOr(_, _)
BitOr(a, b) ==
    IF a = 0 THEN b
    ELSE IF b = 0 THEN a
    ELSE (IF a % 2 = 1 \/ b % 2 = 1 THEN 1 ELSE 0) + 2 * BitOr(a \div 2, b \div 2)

\* u8 shifts: the bits shifted out of the byte are lost
Shl8(b, n) == (b * Pow2(n)) % 256
Shr8(b, n) == b \div Pow2(n)

\* u16 shifts
Shl16(v, n) == (v * Pow2(n)) % 65536

unsigned_to_signed_mut(r) ==
    LET v == (r \div 2) + (r % 2) * 32768
    IN  AsI16(v)

unsigned_to_signed(r) ==
    LET v == (r \div 2) + (r % 2) * 32768       \* rotate_right(1)
        w == IF v >= 32768 THEN 32768 + (32767 - (v - 32768)) ELSE v
    IN  AsI16(w)

signed_to_unsigned(a) ==
    LET r == AsU16(a)
        x == IF r >= 32768 THEN 32768 + (32767 - (r - 32768)) ELSE r
    IN  ((x * 2) % 65536) + (x \div 32768)      \* rotate_left(1)

RECURSIVE BitLength(_)
BitLength(n) == IF n = 0 THEN 0 ELSE 1 + BitLength(n \div 2)

used_bits_safe(n) == IF n = 0 THEN 0 ELSE BitLength(n - 1)

\* ------------------------------------------------------------------------
\* Squares, colours, pieces
\* ------------------------------------------------------------------------

Squares == 0 .. 63
SQ_NONE == 64
A1 == 0
C1 == 2
D1 == 3
E1 == 4
F1 == 5
G1 == 6
H1 == 7
A8 == 56
C8 == 58
D8 == 59
E8 == 60
F8 == 61
G8 == 62
H8 == 63

FileOf(sq) == sq % 8
RankOf(sq) == sq \div 8

White == 0
Black == 1
Opp(c) == 1 - c

Pawn == 0
Knight == 1
Bishop == 2
Rook == 3
Queen == 4
King == 5
PT_NONE == 6

MakePiece(pt, c) == pt * 2 + c
PieceNone == MakePiece(PT_NONE, White)
piece_type(pc) == pc \div 2
piece_color(pc) == pc % 2

WHITE_KING_SIDE == 1
WHITE_QUEEN_SIDE == 2
BLACK_KING_SIDE == 4
BLACK_QUEEN_SIDE == 8

\* CastlingRights are sets of the four flag values.
CR_WHITE == {WHITE_KING_SIDE, WHITE_QUEEN_SIDE}
CR_BLACK == {BLACK_KING_SIDE, BLACK_QUEEN_SIDE}
CR_ALL == CR_WHITE \cup CR_BLACK
CastlingRights_color(c) == IF c = White THEN CR_WHITE ELSE CR_BLACK

Short == 0
Long == 1
CastlingTraits_castling_rights(c, ct) ==
    IF c = White
    THEN (IF ct = Short THEN WHITE_KING_SIDE ELSE WHITE_QUEEN_SIDE)
    ELSE (IF ct = Short THEN BLACK_KING_SIDE ELSE BLACK_QUEEN_SIDE)

last_pawn_rank(c) == IF c = White THEN 6 ELSE 1
forward(c) == IF c = White THEN 8 ELSE -8

\* Move types
Normal == 0
Promotion == 1
Castle == 2
EnPassant == 3

MakeMove(f, t, ty, pr) == [from |-> f, to |-> t, mtype |-> ty, promoted |-> pr]
Move_null == MakeMove(SQ_NONE, SQ_NONE, Normal, PieceNone)
Move_normal(f, t) == MakeMove(f, t, Normal, PieceNone)
Move_en_passant(f, t) == MakeMove(f, t, EnPassant, PieceNone)
Move_promotion(f, t, pc) == MakeMove(f, t, Promotion, pc)
Move_castle(f, t) == MakeMove(f, t, Castle, PieceNone)
Move_from_castle_mut(ct, stm) ==
    IF ct = Long
    THEN (IF stm = White THEN Move_castle(E1, H1) ELSE Move_castle(E8, H8))
    ELSE (IF stm = White THEN Move_castle(E1, A1) ELSE Move_castle(E8, A8))
Move_from_castle(ct, stm) ==
    IF ct = Short
    THEN (IF stm = White THEN Move_castle(E1, H1) ELSE Move_castle(E8, H8))
    ELSE (IF stm = White THEN Move_castle(E1, A1) ELSE Move_castle(E8, A8))
castle_type(mv) == IF FileOf(mv.to) = 7 THEN Short ELSE Long

\* ------------------------------------------------------------------------
\* Bitboards as sets of squares
\* ------------------------------------------------------------------------

from_before(index) == {s \in Squares : s < index}
count(bb) == Cardinality(bb)
lsb(bb) == CHOOSE s \in bb : \A t \in bb : s <= t

\* the n-th (0-based) set bit, by increasing square
nth_set_bit_index(bb, n) == CHOOSE s \in bb : Cardinality({t \in bb : t < s}) = n

\* the squares of a set in increasing order (Bitboard::iter)
RECURSIVE BitboardIter(_)
BitboardIter(bb) ==
    IF bb = {} THEN <<>> ELSE LET s == lsb(bb) IN <<s>> \o BitboardIter(bb \ {s})

\* bb ^ (1 << sq)
ToggleBit(bb, sq) == IF sq \in bb THEN bb \ {sq} ELSE bb \cup {sq}

\* ------------------------------------------------------------------------
\* Attacks
\* ------------------------------------------------------------------------

Offsets(sq, offs) ==
    {(RankOf(sq) + o[2]) * 8 + FileOf(sq) + o[1] :
        o \in {p \in offs : /\ FileOf(sq) + p[1] \in 0 .. 7
                            /\ RankOf(sq) + p[2] \in 0 .. 7}}

KnightOffsets ==
    {<<1, 2>>, <<2, 1>>, <<-1, 2>>, <<-2, 1>>, <<1, -2>>, <<2, -1>>, <<-1, -2>>, <<-2, -1>>}
KingOffsets == {<<1, 0>>, <<-1, 0>>, <<0, 1>>, <<0, -1>>, <<1, 1>>, <<1, -1>>, <<-1, 1>>, <<-1, -1>>}

PAWN_ATTACKS ==
    [c \in {White, Black} |->
        [sq \in Squares |->
            IF c = White THEN Offsets(sq, {<<-1, 1>>, <<1, 1>>})
            ELSE Offsets(sq, {<<-1, -1>>, <<1, -1>>})]]
KNIGHT_ATTACKS == [sq \in Squares |-> Offsets(sq, KnightOffsets)]
KING_ATTACKS == [sq \in Squares |-> Offsets(sq, KingOffsets)]

attacks_pawn(c, sq) == PAWN_ATTACKS[c][sq]
attacks_knight(sq) == KNIGHT_ATTACKS[sq]
attacks_king(sq) == KING_ATTACKS[sq]

\* The squares seen from (f, r) in direction (df, dr): up to and including the
\* first occupied square.
RECURSIVE RayAttack(_, _, _, _, _)
RayAttack(f, r, df, dr, occupied) ==
    LET nf == f + df
        nr == r + dr
        s  == nr * 8 + nf
    IN  IF nf \notin 0 .. 7 \/ nr \notin 0 .. 7 THEN {}
        ELSE IF s \in occupied THEN {s}
        ELSE {s} \cup RayAttack(nf, nr, df, dr, occupied)

attacks_bishop(sq, occupied) ==
    RayAttack(FileOf(sq), RankOf(sq), 1, 1, occupied)
        \cup RayAttack(FileOf(sq), RankOf(sq), -1, -1, occupied)
        \cup RayAttack(FileOf(sq), RankOf(sq), 1, -1, occupied)
        \cup RayAttack(FileOf(sq), RankOf(sq), -1, 1, occupied)

attacks_rook(sq, occupied) ==
    RayAttack(FileOf(sq), RankOf(sq), 0, 1, occupied)
        \cup RayAttack(FileOf(sq), RankOf(sq), 0, -1, occupied)
        \cup RayAttack(FileOf(sq), RankOf(sq), 1, 0, occupied)
        \cup RayAttack(FileOf(sq), RankOf(sq), -1, 0, occupied)

attacks_queen(sq, occupied) == attacks_bishop(sq, occupied) \cup attacks_rook(sq, occupied)

piece_attacks(pt, sq, occupied) ==
    CASE pt = Knight -> attacks_knight(sq)
      [] pt = Bishop -> attacks_bishop(sq, occupied)
      [] pt = Rook   -> attacks_rook(sq, occupied)
      [] pt = Queen  -> attacks_queen(sq, occupied)
      [] pt = King   -> attacks_king(sq)

\* ------------------------------------------------------------------------
\* Position
\* ------------------------------------------------------------------------

InitialPieces ==
    [i \in Squares |->
        CASE i \in {0, 7}    -> MakePiece(Rook, White)
          [] i \in {1, 6}    -> MakePiece(Knight, White)
          [] i \in {2, 5}    -> MakePiece(Bishop, White)
          [] i = 3           -> MakePiece(Queen, White)
          [] i = 4           -> MakePiece(King, White)
          [] i \in 8 .. 15   -> MakePiece(Pawn, White)
          [] i \in 16 .. 47  -> PieceNone
          [] i \in 48 .. 55  -> MakePiece(Pawn, Black)
          [] i \in {56, 63}  -> MakePiece(Rook, Black)
          [] i \in {57, 62}  -> MakePiece(Knight, Black)
          [] i \in {58, 61}  -> MakePiece(Bishop, Black)
          [] i = 59          -> MakePiece(Queen, Black)
          [] i = 60          -> MakePiece(King, Black)]

\* Position::new(): the bitboards are the literals of the source
Position_new ==
    [bb |-> [pt \in 0 .. 5 |->
                CASE pt = Pawn   -> (8 .. 15) \cup (48 .. 55)
                  [] pt = Knight -> {1, 6, 57, 62}
                  [] pt = Bishop -> {2, 5, 58, 61}
                  [] pt = Rook   -> {0, 7, 56, 63}
                  [] pt = Queen  -> {3, 59}
                  [] pt = King   -> {4, 60}],
     bb_color |-> [c \in 0 .. 1 |-> IF c = White THEN 0 .. 15 ELSE 48 .. 63],
     pieces |-> InitialPieces,
     stm |-> White,
     castling_rights |-> CR_ALL,
     halfm |-> 0,
     fullm |-> 1,
     enpassant |-> SQ_NONE]

Position_empty ==
    [bb |-> [pt \in 0 .. 5 |-> {}],
     bb_color |-> [c \in 0 .. 1 |-> {}],
     pieces |-> [i \in Squares |-> PieceNone],
     stm |-> White,
     castling_rights |-> {},
     halfm |-> 0,
     fullm |-> 1,
     enpassant |-> SQ_NONE]

occupied(pos) == pos.bb_color[White] \cup pos.bb_color[Black]
pieces_bb(pos, c) == pos.bb_color[c]
pieces_bb_color(pos, c, pt) == pos.bb_color[c] \cap pos.bb[pt]
piece_at(pos, sq) == pos.pieces[sq]

place_piece(pos, side, pc, sq) ==
    [pos EXCEPT !.bb_color[side] = @ \cup {sq},
                !.bb[piece_type(pc)] = @ \cup {sq},
                !.pieces[sq] = pc]

place(pos, pc, sq) == place_piece(pos, piece_color(pc), pc, sq)

remove_piecetype_mut(pos, side, pt, sq) ==
    [pos EXCEPT !.bb_color[side] = ToggleBit(@, sq),
                !.bb[pt] = ToggleBit(@, sq)]

remove_piecetype(pos, side, pt, sq) ==
    [pos EXCEPT !.bb_color[side] = ToggleBit(@, sq),
                !.bb[pt] = ToggleBit(@, sq),
                !.pieces[sq] = PieceNone]

set_ply(pos, ply) == [pos EXCEPT !.fullm = (ply \div 2) + 1]
set_rule50_counter(pos, counter) == [pos EXCEPT !.halfm = counter % 256]
rule50_counter(pos) == pos.halfm

is_attacked(pos, sq, c) ==
    LET occ == occupied(pos)
    IN  \/ attacks_pawn(Opp(c), sq) \cap pieces_bb_color(pos, c, Pawn) # {}
        \/ attacks_knight(sq) \cap pieces_bb_color(pos, c, Knight) # {}
        \/ attacks_king(sq) \cap pieces_bb_color(pos, c, King) # {}
        \/ attacks_bishop(sq, occ)
             \cap (pieces_bb_color(pos, c, Bishop) \cup pieces_bb_color(pos, c, Queen)) # {}
        \/ attacks_rook(sq, occ)
             \cap (pieces_bb_color(pos, c, Rook) \cup pieces_bb_color(pos, c, Queen)) # {}

king_sq(pos, c) == lsb(pieces_bb_color(pos, c, King))

is_checked(pos, c) == is_attacked(pos, king_sq(pos, c), Opp(c))

update_castling_rights_color(pos, color, from, to) ==
    LET e == IF color = White THEN E1 ELSE E8
        a == IF color = White THEN A1 ELSE A8
        h == IF color = White THEN H1 ELSE H8
        both == IF from = e \/ to = e THEN CastlingRights_color(color) ELSE {}
        q == IF from = a \/ to = a
             THEN {CastlingTraits_castling_rights(color, Long)} ELSE {}
        k == IF from = h \/ to = h
             THEN {CastlingTraits_castling_rights(color, Short)} ELSE {}
    IN  [pos EXCEPT !.castling_rights = @ \ (both \cup q \cup k)]

\* do_move, lines 160-176: lift the moving piece, remove a captured piece
DoMoveCapture(pos, mv) ==
    LET piece == piece_at(pos, mv.from)
        pt == piece_type(piece)
        p1 == remove_piecetype(pos, pos.stm, pt, mv.from)
        captured == piece_at(p1, mv.to)
    IN  IF mv.mtype # Castle /\ captured # PieceNone
        THEN LET cap_pt == piece_type(captured)
                 p2 == remove_piecetype(p1, Opp(p1.stm), cap_pt, mv.to)
                 p3 == IF cap_pt = Rook
                       THEN update_castling_rights_color(p2, Opp(p2.stm), mv.from, mv.to)
                       ELSE p2
             IN  [p3 EXCEPT !.halfm = 0]
        ELSE p1

\* do_move, lines 178-231: castling rights of the mover, then the placement
DoMovePlace(p0, mv, piece) ==
    LET pt == piece_type(piece)
        stm == p0.stm
        p1 == IF pt = King \/ pt = Rook
              THEN update_castling_rights_color(p0, stm, mv.from, mv.to)
              ELSE p0
    IN  CASE mv.mtype = Promotion -> place_piece(p1, stm, mv.promoted, mv.to)
          [] mv.mtype = EnPassant ->
                place_piece(remove_piecetype(p1, Opp(stm), Pawn,
                                             IF (mv.to \div 8) % 2 = 0 THEN mv.to + 8
                                             ELSE mv.to - 8),
                            stm, piece, mv.to)
          [] mv.mtype = Normal -> place_piece(p1, stm, piece, mv.to)
          [] mv.mtype = Castle ->
                LET short == castle_type(mv) = Short
                    rook_to == IF short THEN (IF stm = White THEN F1 ELSE F8)
                               ELSE (IF stm = White THEN D1 ELSE D8)
                    king_to == IF short THEN (IF stm = White THEN G1 ELSE G8)
                               ELSE (IF stm = White THEN C1 ELSE C8)
                    rook == piece_at(p1, mv.to)
                    q1 == remove_piecetype(p1, stm, Rook, mv.to)
                    q2 == place_piece(q1, stm, rook, rook_to)
                IN  place_piece(q2, stm, piece, king_to)

\* do_move, lines 235-245: the half-move clock (u8) and the full-move number (u16)
DoMoveClocks(pos, pt) ==
    [pos EXCEPT !.halfm = IF pt = Pawn THEN 0 ELSE (@ + 1) % 256,
                !.fullm = IF pos.stm = Black THEN (@ + 1) % 65536 ELSE @]

\* to.index() ^ 8
XorEight(sq) == IF (sq \div 8) % 2 = 0 THEN sq + 8 ELSE sq - 8

\* do_move, lines 267-295: the loop over the enemy pawns attacking the skipped
\* square; each capture is played, tested and undone.
RECURSIVE EpLoop_mut(_, _, _, _, _)
EpLoop_mut(pos, enemy_mask, ep, to, piece) ==
    IF enemy_mask = {} THEN pos
    ELSE [pos EXCEPT !.enpassant = ep]

RECURSIVE EpLoop(_, _, _, _, _)
EpLoop(pos, enemy_mask, ep, to, piece) ==
    IF enemy_mask = {} THEN pos
    ELSE LET stm == pos.stm
             enemy_sq == lsb(enemy_mask)
             enemy_pawn == piece_at(pos, enemy_sq)
             s1 == remove_piecetype(pos, Opp(stm), Pawn, enemy_sq)
             s2 == place_piece(s1, Opp(stm), enemy_pawn, ep)
             s3 == remove_piecetype(s2, stm, Pawn, to)
             checked == is_checked(s3, Opp(stm))
             u1 == place_piece(s3, Opp(stm), enemy_pawn, enemy_sq)
             u2 == remove_piecetype(u1, Opp(stm), Pawn, ep)
             u3 == place_piece(u2, stm, piece, to)
         IN  IF ~checked THEN [u3 EXCEPT !.enpassant = ep]
             ELSE EpLoop(u3, enemy_mask \ {enemy_sq}, ep, to, piece)

\* do_move, lines 247-297
DoMoveEnPassant(p0, mv, piece) ==
    LET pt == piece_type(piece)
        p1 == [p0 EXCEPT !.enpassant = SQ_NONE]
        d == mv.to - mv.from
    IN  IF pt = Pawn /\ (d = 16 \/ d = -16)
        THEN LET ep == XorEight(mv.to)
                 ep_mask == attacks_pawn(p1.stm, ep)
                 enemy_mask == pieces_bb_color(p1, Opp(p1.stm), Pawn)
             IN  IF ep_mask \cap enemy_mask # {}
                 THEN EpLoop(p1, ep_mask \cap enemy_mask, ep, mv.to, piece)
                 ELSE p1
        ELSE p1

do_move(pos, mv) ==
    LET piece == piece_at(pos, mv.from)
        p1 == DoMoveCapture(pos, mv)
        p2 == DoMovePlace(p1, mv, piece)
        p3 == DoMoveClocks(p2, piece_type(piece))
        p4 == DoMoveEnPassant(p3, mv, piece)
    IN  [p4 EXCEPT !.stm = Opp(@)]

after_move(pos, mv) == do_move(pos, mv)

\* ------------------------------------------------------------------------
\* Move generation (attacks.rs); the moves are collected as a set
\* ------------------------------------------------------------------------

PROMOTION_PIECES == {Queen, Rook, Bishop, Knight}

add_promotions(from_sq, to_sq, side) ==
    {Move_promotion(from_sq, to_sq, MakePiece(pt, side)) : pt \in PROMOTION_PIECES}

InPromotionRank(side, sq) == IF side = White THEN sq \in 56 .. 63 ELSE sq \in 0 .. 7

generate_pawn_pushes(pos, side, from_sq) ==
    LET direction == IF side = White THEN 8 ELSE -8
        start_rank == IF side = White THEN 1 ELSE 6
        one_step == from_sq + direction
        two_step == one_step + direction
    IN  IF one_step \notin Squares \/ piece_at(pos, one_step) # PieceNone THEN {}
        ELSE IF InPromotionRank(side, one_step)
             THEN add_promotions(from_sq, one_step, side)
             ELSE {Move_normal(from_sq, one_step)}
                  \cup (IF /\ from_sq \div 8 = start_rank
                           /\ two_step \in Squares
                           /\ piece_at(pos, two_step) = PieceNone
                        THEN {Move_normal(from_sq, two_step)} ELSE {})

PawnCaptureTo(pos, side, from_sq, to_sq) ==
    LET target == piece_at(pos, to_sq)
    IN  IF pos.enpassant # SQ_NONE /\ to_sq = pos.enpassant
        THEN {Move_en_passant(from_sq, to_sq)}
        ELSE IF target # PieceNone /\ piece_color(target) # side
             THEN IF InPromotionRank(side, to_sq)
                  THEN add_promotions(from_sq, to_sq, side)
                  ELSE {Move_normal(from_sq, to_sq)}
             ELSE {}

generate_pawn_captures(pos, side, from_sq) ==
    UNION {PawnCaptureTo(pos, side, from_sq, to_sq) : to_sq \in attacks_pawn(side, from_sq)}

generate_pawn_moves(pos, side) ==
    UNION {generate_pawn_pushes(pos, side, f) \cup generate_pawn_captures(pos, side, f)
           : f \in pieces_bb_color(pos, side, Pawn)}

generate_piece_moves(pos, side, pt) ==
    UNION {{Move_normal(f, t) :
              t \in {x \in piece_attacks(pt, f, occupied(pos)) :
                        \/ piece_at(pos, x) = PieceNone
                        \/ piece_color(piece_at(pos, x)) # side}}
           : f \in pieces_bb_color(pos, side, pt)}

pieces_attacking_square(sq, c, pos) ==
    (attacks_pawn(c, sq) \cap pieces_bb_color(pos, Opp(c), Pawn))
    \cup (attacks_knight(sq) \cap pieces_bb_color(pos, Opp(c), Knight))
    \cup (attacks_bishop(sq, occupied(pos))
            \cap (pieces_bb_color(pos, Opp(c), Bishop) \cup pieces_bb_color(pos, Opp(c), Queen)))
    \cup (attacks_rook(sq, occupied(pos))
            \cap (pieces_bb_color(pos, Opp(c), Rook) \cup pieces_bb_color(pos, Opp(c), Queen)))
    \cup (attacks_king(sq) \cap pieces_bb_color(pos, Opp(c), King))

try_castle(pos, side, castle_right, ksq, rook_sq) ==
    LET check_path == CASE rook_sq = H1 -> {F1, G1}
                        [] rook_sq = A1 -> {C1, D1}
                        [] rook_sq = H8 -> {F8, G8}
                        [] rook_sq = A8 -> {C8, D8}
        path == CASE rook_sq = H1 -> {F1, G1}
                  [] rook_sq = A1 -> {1, C1, D1}
                  [] rook_sq = H8 -> {F8, G8}
                  [] rook_sq = A8 -> {57, C8, D8}
    IN  IF /\ castle_right \in pos.castling_rights
           /\ \A sq \in path : piece_at(pos, sq) = PieceNone
           /\ \A sq \in check_path : pieces_attacking_square(sq, side, pos) = {}
        THEN {Move_castle(ksq, rook_sq)}
        ELSE {}

generate_castling_moves(pos, side) ==
    LET ksq == king_sq(pos, side)
    IN  IF pieces_attacking_square(ksq, side, pos) # {} THEN {}
        ELSE IF side = White
             THEN try_castle(pos, side, WHITE_KING_SIDE, ksq, H1)
                  \cup try_castle(pos, side, WHITE_QUEEN_SIDE, ksq, A1)
             ELSE try_castle(pos, side, BLACK_KING_SIDE, ksq, H8)
                  \cup try_castle(pos, side, BLACK_QUEEN_SIDE, ksq, A8)

pseudo_legal_moves(pos) ==
    LET side == pos.stm
    IN  generate_pawn_moves(pos, side)
        \cup generate_piece_moves(pos, side, Knight)
        \cup generate_piece_moves(pos, side, Bishop)
        \cup generate_piece_moves(pos, side, Rook)
        \cup generate_piece_moves(pos, side, Queen)
        \cup generate_piece_moves(pos, side, King)
        \cup generate_castling_moves(pos, side)

\* the legality filter of perft: the mover's king is not left in check
LegalMoves(pos) ==
    {m \in pseudo_legal_moves(pos) : ~is_checked(after_move(pos, m), pos.stm)}

\* ------------------------------------------------------------------------
\* CompressedMove (16 bits) and CompressedPosition (24 bytes)
\* ------------------------------------------------------------------------

CompressedMove_from_move_mut(mv) ==
    IF mv.from # mv.to
    THEN mv.mtype * 16384 + mv.from * 256 + mv.to * 4
    ELSE 0

CompressedMove_from_move(mv) ==
    IF mv.from # mv.to
    THEN mv.mtype * 16384 + mv.from * 256 + mv.to * 4
         + (IF mv.mtype = Promotion THEN piece_type(mv.promoted) - Knight ELSE 0)
    ELSE 0

CompressedMove_move_type(packed) == packed \div 16384
CompressedMove_from(packed) == (packed \div 256) % 64
CompressedMove_to(packed) == (packed \div 4) % 64

CompressedMove_promoted_piece(packed) ==
    IF CompressedMove_move_type(packed) = Promotion
    THEN MakePiece((packed % 4) + Knight,
                   IF RankOf(CompressedMove_to(packed)) = 0 THEN Black ELSE White)
    ELSE PieceNone

CompressedMove_decompress(packed) ==
    IF packed = 0 THEN Move_null
    ELSE MakeMove(CompressedMove_from(packed), CompressedMove_to(packed),
                  CompressedMove_move_type(packed), CompressedMove_promoted_piece(packed))

\* the 16-bit code as two bytes, most significant first, and back
U16ToBigEndian(w) == <<w \div 256, w % 256>>
U16FromBigEndian(data, offset) == data[offset + 1] * 256 + data[offset + 2]

pack_piece_mut(pos, sq) ==
    LET piece == piece_at(pos, sq)
        ep_sq == pos.enpassant
    IN  IF /\ piece_type(piece) = Pawn
           /\ ep_sq # SQ_NONE
           /\ \/ (piece_color(piece) = White /\ RankOf(sq) = 3 /\ ep_sq = sq - 8)
              \/ (piece_color(piece) = Black /\ RankOf(sq) = 4 /\ ep_sq = sq + 8)
        THEN 12
        ELSE IF /\ piece = MakePiece(Rook, White)
                /\ \/ (sq = A1 /\ WHITE_QUEEN_SIDE \in pos.castling_rights)
                   \/ (sq = H1 /\ WHITE_KING_SIDE \in pos.castling_rights)
        THEN 13
        ELSE IF /\ piece = MakePiece(Rook, Black)
                /\ \/ (sq = A8 /\ BLACK_QUEEN_SIDE \in pos.castling_rights)
                   \/ (sq = H8 /\ BLACK_KING_SIDE \in pos.castling_rights)
        THEN 14
        ELSE piece

pack_piece(pos, sq) ==
    LET piece == piece_at(pos, sq)
        ep_sq == pos.enpassant
    IN  IF /\ piece_type(piece) = Pawn
           /\ ep_sq # SQ_NONE
           /\ \/ (piece_color(piece) = White /\ RankOf(sq) = 3 /\ ep_sq = sq - 8)
              \/ (piece_color(piece) = Black /\ RankOf(sq) = 4 /\ ep_sq = sq + 8)
        THEN 12
        ELSE IF /\ piece = MakePiece(Rook, White)
                /\ \/ (sq = A1 /\ WHITE_QUEEN_SIDE \in pos.castling_rights)
                   \/ (sq = H1 /\ WHITE_KING_SIDE \in pos.castling_rights)
        THEN 13
        ELSE IF /\ piece = MakePiece(Rook, Black)
                /\ \/ (sq = A8 /\ BLACK_QUEEN_SIDE \in pos.castling_rights)
                   \/ (sq = H8 /\ BLACK_KING_SIDE \in pos.castling_rights)
        THEN 14
        ELSE IF piece = MakePiece(King, Black) /\ pos.stm = Black
        THEN 15
        ELSE piece

\* CompressedPosition::compress: the occupancy and sixteen bytes of nibbles,
\* the nibble of the lower square in the low half of each byte
CompressedPosition_compress(pos) ==
    LET occ == occupied(pos)
        sqs == BitboardIter(occ)
        nib(i) == IF i <= Len(sqs) THEN pack_piece(pos, sqs[i]) ELSE 0
    IN  [occupied |-> occ,
         packed_state |-> [k \in 1 .. 16 |-> nib(2 * k - 1) + 16 * nib(2 * k)]]

decompress_piece(pos, sq, nibble) ==
    CASE nibble \in 0 .. 11 -> place(pos, nibble, sq)
      [] nibble = 12 ->
            IF RankOf(sq) = 3
            THEN [place(pos, MakePiece(Pawn, White), sq) EXCEPT !.enpassant = sq - 8]
            ELSE [place(pos, MakePiece(Pawn, Black), sq) EXCEPT !.enpassant = sq + 8]
      [] nibble = 13 ->
            [place(pos, MakePiece(Rook, White), sq) EXCEPT
                !.castling_rights = @ \cup (IF sq = A1 THEN {WHITE_QUEEN_SIDE}
                                            ELSE {WHITE_KING_SIDE})]
      [] nibble = 14 ->
            [place(pos, MakePiece(Rook, Black), sq) EXCEPT
                !.castling_rights = @ \cup (IF sq = A8 THEN {BLACK_QUEEN_SIDE}
                                            ELSE {BLACK_KING_SIDE})]
      [] nibble = 15 ->
            [place(pos, MakePiece(King, Black), sq) EXCEPT !.stm = Black]

RECURSIVE DecompressFrom(_, _, _, _)
DecompressFrom(pos, sqs, packed_state, i) ==
    IF i > Len(sqs) \/ i > 32 THEN pos
    ELSE LET byte == packed_state[(i + 1) \div 2]
             nibble == IF i % 2 = 1 THEN byte % 16 ELSE byte \div 16
         IN  DecompressFrom(decompress_piece(pos, sqs[i], nibble), sqs, packed_state, i + 1)

CompressedPosition_decompress(cp) ==
    DecompressFrom(Position_empty, BitboardIter(cp.occupied), cp.packed_state, 1)

\* one byte of the occupancy: the squares of rank r, file a in bit 0
RankByte(occ, r) ==
    (IF r * 8 \in occ THEN 1 ELSE 0) + (IF r * 8 + 1 \in occ THEN 2 ELSE 0)
    + (IF r * 8 + 2 \in occ THEN 4 ELSE 0) + (IF r * 8 + 3 \in occ THEN 8 ELSE 0)
    + (IF r * 8 + 4 \in occ THEN 16 ELSE 0) + (IF r * 8 + 5 \in occ THEN 32 ELSE 0)
    + (IF r * 8 + 6 \in occ THEN 64 ELSE 0) + (IF r * 8 + 7 \in occ THEN 128 ELSE 0)

CompressedPosition_write_to_big_endian(cp) ==
    [i \in 1 .. 24 |-> IF i <= 8 THEN RankByte(cp.occupied, 8 - i)
                       ELSE cp.packed_state[i - 8]]

CompressedPosition_read_from_big_endian(data) ==
    [occupied |-> {s \in Squares : (data[8 - (s \div 8)] \div Pow2(s % 8)) % 2 = 1},
     packed_state |-> [k \in 1 .. 16 |-> data[8 + k]]]

\* ------------------------------------------------------------------------
\* TrainingDataEntry and the 32-byte PackedTrainingDataEntry
\* ------------------------------------------------------------------------

MakeEntry(pos, mv, score, ply, result) ==
    [pos |-> pos, mv |-> mv, score |-> score, ply |-> ply, result |-> result]

is_continuation_mut(self, other) ==
    /\ self.result = WrappingNeg16(other.result)
    /\ after_move(self.pos, self.mv) = other.pos

\* -x on i16 and x + 1 on u16, as the optimised build computes them
is_continuation(self, other) ==
    /\ self.result = WrappingNeg16(other.result)
    /\ (self.ply + 1) % 65536 = other.ply
    /\ after_move(self.pos, self.mv) = other.pos

from_entry(entry) ==
    LET pr == BitOr(entry.ply, Shl16(signed_to_unsigned(entry.result), 14))
    IN  CompressedPosition_write_to_big_endian(CompressedPosition_compress(entry.pos))
        \o U16ToBigEndian(CompressedMove_from_move(entry.mv))
        \o U16ToBigEndian(signed_to_unsigned(entry.score))
        \o U16ToBigEndian(pr)
        \o U16ToBigEndian(rule50_counter(entry.pos))

unpack_entry(data) ==
    LET pos0 == CompressedPosition_decompress(CompressedPosition_read_from_big_endian(data))
        mv == CompressedMove_decompress(U16FromBigEndian(data, 24))
        score == unsigned_to_signed(U16FromBigEndian(data, 26))
        pr == U16FromBigEndian(data, 28)
        ply == pr % 16384
        result == unsigned_to_signed(pr \div 16384)
        pos1 == set_ply(pos0, ply)
        pos2 == set_rule50_counter(pos1, U16FromBigEndian(data, 30))
    IN  MakeEntry(pos2, mv, score, ply, result)

\* ------------------------------------------------------------------------
\* BitWriter / BitReader
\* ------------------------------------------------------------------------

SCORE_VLE_BLOCK_SIZE == 4

BitWriter_new == [movetext |-> <<>>, bits_left |-> 0]

SetLast(seq, v) == [seq EXCEPT ![Len(seq)] = v]

add_bits_le8(bw, bits, cnt) ==
    IF cnt = 0 THEN bw
    ELSE IF bw.bits_left = 0
    THEN [movetext |-> Append(bw.movetext, Shl8(bits, 8 - cnt)),
          bits_left |-> 8 - cnt]
    ELSE IF cnt <= bw.bits_left
    THEN [movetext |-> SetLast(bw.movetext,
                               BitOr(bw.movetext[Len(bw.movetext)],
                                     Shl8(bits, bw.bits_left - cnt))),
          bits_left |-> bw.bits_left - cnt]
    ELSE LET spill_count == cnt - bw.bits_left
         IN  [movetext |-> Append(SetLast(bw.movetext,
                                          BitOr(bw.movetext[Len(bw.movetext)],
                                                Shr8(bits, spill_count))),
                                  Shl8(bits, 8 - spill_count)),
              bits_left |-> bw.bits_left + 8 - cnt]

RECURSIVE add_bits_vle16(_, _, _)
add_bits_vle16(bw, v, block_size) ==
    LET mask == Pow2(block_size) - 1
        block == (v % Pow2(block_size)) + (IF v > mask THEN Pow2(block_size) ELSE 0)
        bw1 == add_bits_le8(bw, block, block_size + 1)
        v1 == v \div Pow2(block_size)
    IN  IF v1 = 0 THEN bw1 ELSE add_bits_vle16(bw1, v1, block_size)

BitReader_new == [read_bits_left |-> 8, read_offset |-> 0]

\* the byte at movetext.add(k); mt is the buffer from the movetext pointer on
ByteAt(mt, k) == mt[k + 1]

\* returns the extracted bits and the advanced reader
extract_bits_le8(rd, mt, cnt) ==
    IF cnt = 0 THEN [bits |-> 0, rd |-> rd]
    ELSE LET r1 == IF rd.read_bits_left = 0
                   THEN [read_bits_left |-> 8, read_offset |-> rd.read_offset + 1]
                   ELSE rd
             byte == Shl8(ByteAt(mt, r1.read_offset), 8 - r1.read_bits_left)
             bits0 == Shr8(byte, 8 - cnt)
         IN  IF cnt > r1.read_bits_left
             THEN LET spill_count == cnt - r1.read_bits_left
                  IN  [bits |-> BitOr(bits0, Shr8(ByteAt(mt, r1.read_offset + 1),
                                                  8 - spill_count)),
                       rd |-> [read_bits_left |-> r1.read_bits_left + 8 - cnt,
                               read_offset |-> r1.read_offset + 1]]
             ELSE [bits |-> bits0,
                   rd |-> [read_bits_left |-> r1.read_bits_left - cnt,
                           read_offset |-> r1.read_offset]]

RECURSIVE ExtractVleFrom(_, _, _, _, _)
ExtractVleFrom(rd, mt, block_size, v, offset) ==
    LET x == extract_bits_le8(rd, mt, block_size + 1)
        block == x.bits
        v1 == BitOr(v, Shl16(block % Pow2(block_size), offset))
    IN  IF block \div Pow2(block_size) = 0
        THEN [bits |-> v1, rd |-> x.rd]
        ELSE ExtractVleFrom(x.rd, mt, block_size, v1, offset + block_size)

extract_vle16_mut(rd, mt, block_size) ==
    ExtractVleFrom(rd, mt, block_size, 0, 1)

extract_vle16(rd, mt, block_size) ==
    ExtractVleFrom(rd, mt, block_size, 0, 0)

BitReader_num_read_bytes_mut(rd) ==
    rd.read_offset

BitReader_num_read_bytes(rd) ==
    rd.read_offset + (IF rd.read_bits_left # 8 THEN 1 ELSE 0)

\* ------------------------------------------------------------------------
\* PackedMoveScoreList (writer side)
\* ------------------------------------------------------------------------

PackedMoveScoreList_new == [num_plies |-> 0, writer |-> BitWriter_new, last_score |-> 0]

PackedMoveScoreList_clear(ml, e) ==
    [num_plies |-> 0, writer |-> BitWriter_new, last_score |-> WrappingNeg16(e.score)]

\* the squares a pawn on from can go to, as calculate_move_encoding computes them
PawnDestinations(pos, from) ==
    LET stm == pos.stm
        their_pieces == pieces_bb(pos, Opp(stm))
        occ == occupied(pos)
        start_rank == last_pawn_rank(Opp(stm))
        attack_targets == IF pos.enpassant # SQ_NONE
                          THEN their_pieces \cup {pos.enpassant} ELSE their_pieces
        sq_forward == from + forward(stm)
    IN  (attacks_pawn(stm, from) \cap attack_targets)
        \cup (IF sq_forward \notin occ
              THEN {sq_forward}
                   \cup (IF RankOf(from) = start_rank /\ (sq_forward + forward(stm)) \notin occ
                         THEN {sq_forward + forward(stm)} ELSE {})
              ELSE {})

\* returns <<move_id, num_moves>>
calculate_move_encoding(pos, mv) ==
    LET stm == pos.stm
        our_pieces == pieces_bb(pos, stm)
        occ == occupied(pos)
        pt == piece_type(piece_at(pos, mv.from))
    IN  CASE pt = Pawn ->
                LET destinations == PawnDestinations(pos, mv.from)
                    move_id == count(destinations \cap from_before(mv.to))
                    num_moves == count(destinations)
                IN  IF RankOf(mv.from) = last_pawn_rank(stm)
                    THEN <<move_id * 4 + (piece_type(mv.promoted) - Knight), num_moves * 4>>
                    ELSE <<move_id, num_moves>>
          [] pt = King ->
                LET attacks == attacks_king(mv.from) \ our_pieces
                    attacks_size == count(attacks)
                    num_castling_rights ==
                        count(pos.castling_rights \cap CastlingRights_color(stm))
                    num_moves == attacks_size + num_castling_rights
                IN  IF mv.mtype = Castle
                    THEN <<attacks_size - 1
                             + (IF CastlingTraits_castling_rights(stm, Long)
                                     \in pos.castling_rights THEN 1 ELSE 0)
                             + (IF castle_type(mv) = Short THEN 1 ELSE 0),
                           num_moves>>
                    ELSE <<count(attacks \cap from_before(mv.to)), num_moves>>
          [] OTHER ->
                LET attacks == piece_attacks(pt, mv.from, occ) \ our_pieces
                IN  <<count(attacks \cap from_before(mv.to)), count(attacks)>>

add_move_score(ml, pos, mv, score) ==
    LET stm == pos.stm
        piece_id == count(pieces_bb(pos, stm) \cap from_before(mv.from))
        enc == calculate_move_encoding(pos, mv)
        num_pieces == count(pieces_bb(pos, stm))
        w1 == add_bits_le8(ml.writer, piece_id % 256, used_bits_safe(num_pieces))
        w2 == add_bits_le8(w1, enc[1] % 256, used_bits_safe(enc[2]))
        score_delta == signed_to_unsigned(WrappingSub16(score, ml.last_score))
        w3 == add_bits_vle16(w2, score_delta, SCORE_VLE_BLOCK_SIZE)
    IN  [num_plies |-> (ml.num_plies + 1) % 65536,
         writer |-> w3,
         last_score |-> WrappingNeg16(score)]

\* ------------------------------------------------------------------------
\* PackedMoveScoreListReader
\* ------------------------------------------------------------------------

PackedMoveScoreListReader_new(entry, num_plies) ==
    [reader |-> BitReader_new,
     last_score |-> WrappingNeg16(entry.score),
     num_plies |-> num_plies,
     num_read_plies |-> 0,
     entry |-> entry]

PackedMoveScoreListReader_has_next(mr) == mr.num_read_plies < mr.num_plies

DecoderPawnDestinations_mut(pos, from, occ) ==
    LET stm == pos.stm
        attack_targets == pieces_bb(pos, Opp(stm))
        destinations == attacks_pawn(stm, from) \cap attack_targets
        sq_forward == from + forward(stm)
    IN  IF sq_forward \notin occ
        THEN IF RankOf(from) = last_pawn_rank(Opp(stm))
             THEN (IF (sq_forward + forward(stm)) \notin occ
                   THEN destinations \cup {sq_forward, sq_forward + forward(stm)}
                   ELSE destinations \cup {sq_forward})
             ELSE destinations \cup {sq_forward}
        ELSE destinations

\* the squares a pawn on from can go to, as decode_move computes them from the
\* occupancy it is handed
DecoderPawnDestinations(pos, from, occ) ==
    LET stm == pos.stm
        their_pieces == pieces_bb(pos, Opp(stm))
        attack_targets == IF pos.enpassant # SQ_NONE
                          THEN their_pieces \cup {pos.enpassant} ELSE their_pieces
        destinations == attacks_pawn(stm, from) \cap attack_targets
        sq_forward == from + forward(stm)
    IN  IF sq_forward \notin occ
        THEN IF RankOf(from) = last_pawn_rank(Opp(stm))
             THEN (IF (sq_forward + forward(stm)) \notin occ
                   THEN destinations \cup {sq_forward, sq_forward + forward(stm)}
                   ELSE destinations \cup {sq_forward})
             ELSE destinations \cup {sq_forward}
        ELSE destinations

\* returns the move and the advanced bit reader
decode_move(pos, rd, mt, piece_id, occ) ==
    LET stm == pos.stm
        our_pieces == pieces_bb(pos, stm)
        from == nth_set_bit_index(our_pieces, piece_id)
        pt == piece_type(piece_at(pos, from))
    IN  CASE pt = Pawn ->
                LET destinations == DecoderPawnDestinations(pos, from, occ)
                    destinations_count == count(destinations)
                IN  IF RankOf(from) = last_pawn_rank(stm)
                    THEN LET x == extract_bits_le8(rd, mt,
                                                   used_bits_safe(destinations_count * 4))
                             move_id == x.bits
                             promoted == MakePiece(Knight + (move_id % 4), stm)
                             to == nth_set_bit_index(destinations, move_id \div 4)
                         IN  [mv |-> Move_promotion(from, to, promoted), rd |-> x.rd]
                    ELSE LET x == extract_bits_le8(rd, mt, used_bits_safe(destinations_count))
                             to == nth_set_bit_index(destinations, x.bits)
                         IN  [mv |-> IF to = pos.enpassant THEN Move_en_passant(from, to)
                                     ELSE Move_normal(from, to),
                              rd |-> x.rd]
          [] pt = King ->
                LET attacks == attacks_king(from) \ our_pieces
                    attacks_size == count(attacks)
                    num_castlings == count(pos.castling_rights \cap CastlingRights_color(stm))
                    x == extract_bits_le8(rd, mt, used_bits_safe(attacks_size + num_castlings))
                    move_id == x.bits
                IN  IF move_id >= attacks_size
                    THEN LET ct == IF /\ move_id - attacks_size = 0
                                      /\ CastlingTraits_castling_rights(stm, Long)
                                            \in pos.castling_rights
                                   THEN Long ELSE Short
                         IN  [mv |-> Move_from_castle(ct, stm), rd |-> x.rd]
                    ELSE [mv |-> Move_normal(from, nth_set_bit_index(attacks, move_id)),
                          rd |-> x.rd]
          [] OTHER ->
                LET attacks == piece_attacks(pt, from, occ) \ our_pieces
                    x == extract_bits_le8(rd, mt, used_bits_safe(count(attacks)))
                IN  [mv |-> Move_normal(from, nth_set_bit_index(attacks, x.bits)),
                     rd |-> x.rd]

decode_score_mut(rd, mt, last_score) ==
    LET x == extract_vle16(rd, mt, SCORE_VLE_BLOCK_SIZE)
    IN  [score |-> last_score + unsigned_to_signed(x.bits), rd |-> x.rd]

\* decode_score; returns the score and the advanced bit reader
decode_score(rd, mt, last_score) ==
    LET x == extract_vle16(rd, mt, SCORE_VLE_BLOCK_SIZE)
    IN  [score |-> WrappingAdd16(last_score, unsigned_to_signed(x.bits)), rd |-> x.rd]

\* next_move_score, its last step: the score delta after the move m
ScoreAfterMove(mr, mv, s) ==
    [mv |-> mv,
     score |-> s.score,
     mr |-> [mr EXCEPT !.reader = s.rd,
                       !.last_score = WrappingNeg16(s.score),
                       !.num_read_plies = @ + 1]]

\* next_move_score, its middle step: the move of the piece whose index is x.bits
MoveOfPiece(mr, mt, x) ==
    decode_move(mr.entry.pos, x.rd, mt, x.bits, occupied(mr.entry.pos))

MoveThenScore(mr, mt, m) ==
    ScoreAfterMove(mr, m.mv, decode_score(m.rd, mt, mr.last_score))

\* next_move_score on the position of mr.entry; returns the move, the score and
\* the advanced list reader
next_move_score(mr, mt) ==
    MoveThenScore(mr, mt,
        MoveOfPiece(mr, mt,
            extract_bits_le8(mr.reader, mt,
                used_bits_safe(count(pieces_bb(mr.entry.pos, mr.entry.pos.stm))))))

EntryOfMoveScore_mut(x) ==
    [x.mr EXCEPT !.entry.mv = x.mv,
                 !.entry.score = x.score,
                 !.entry.result = WrappingNeg16(@)]

\* next_entry, its last step: the sample made of the move and score read
EntryOfMoveScore(x) ==
    [x.mr EXCEPT !.entry.mv = x.mv,
                 !.entry.score = x.score,
                 !.entry.ply = (@ + 1) % 65536,
                 !.entry.result = WrappingNeg16(@)]

\* next_entry: the advanced list reader; its entry is the sample returned
next_entry(mr, mt) ==
    EntryOfMoveScore(
        next_move_score([mr EXCEPT !.entry.pos = do_move(mr.entry.pos, mr.entry.mv)], mt))

PackedMoveScoreListReader_num_read_bytes(mr) == BitReader_num_read_bytes(mr.reader)

\* ------------------------------------------------------------------------
\* CompressedTrainingDataFileWriter: the framed output stream
\* ------------------------------------------------------------------------

HEADER_SIZE == 8
MAGIC == <<66, 73, 78, 80>>

\* outcomes of one call on the underlying stream
IoOutcomes == {"ok", "header", "payload", "flush"}

write_chunk_header(chunk_size) ==
    MAGIC \o <<chunk_size % 256, (chunk_size \div 256) % 256,
               (chunk_size \div 65536) % 256, (chunk_size \div 16777216) % 256>>

\* append: header, then payload; a failing write leaves what was written before it
append(file, data, io) ==
    CASE io = "header"  -> [file |-> file, ok |-> FALSE]
      [] io = "payload" -> [file |-> file \o write_chunk_header(Len(data)), ok |-> FALSE]
      [] OTHER          -> [file |-> file \o write_chunk_header(Len(data)) \o data,
                            ok |-> TRUE]

\* ------------------------------------------------------------------------
\* CompressedTrainingDataEntryWriter
\* ------------------------------------------------------------------------

Writer_new_mut ==
    [last_entry |-> MakeEntry(Position_new, Move_null, 0, 65535, 32767),
     movelist |-> PackedMoveScoreList_new,
     packed_entries |-> <<>>,
     is_first |-> FALSE]

Writer_new ==
    [last_entry |-> MakeEntry(Position_new, Move_null, 0, 65535, 32767),
     movelist |-> PackedMoveScoreList_new,
     packed_entries |-> <<>>,
     is_first |-> TRUE]

\* packed_size is the length of the used prefix of packed_entries
packed_size(w) == Len(w.packed_entries)

write_movelist(w) ==
    [w EXCEPT !.packed_entries =
        @ \o U16ToBigEndian(w.movelist.num_plies)
          \o (IF w.movelist.num_plies > 0 THEN w.movelist.writer.movetext ELSE <<>>)]

\* write_entry: the writer, the stream and the result of the call
write_entry(w, file, entry, io) ==
    IF is_continuation(w.last_entry, entry)
    THEN [w |-> [w EXCEPT !.movelist = add_move_score(@, entry.pos, entry.mv, entry.score),
                          !.last_entry = entry],
          file |-> file, res |-> "Ok"]
    ELSE LET w1 == IF ~w.is_first THEN write_movelist(w) ELSE w
             full == packed_size(w1) >= SUGGESTED_CHUNK_SIZE
             a == append(file, w1.packed_entries, io)
         IN  IF full /\ ~a.ok
             THEN [w |-> w1, file |-> a.file, res |-> "Io"]
             ELSE LET w2 == IF full THEN [w1 EXCEPT !.packed_entries = <<>>] ELSE w1
                  IN  [w |-> [w2 EXCEPT !.packed_entries = @ \o from_entry(entry),
                                        !.movelist = PackedMoveScoreList_clear(@, entry),
                                        !.is_first = FALSE,
                                        !.last_entry = entry],
                       file |-> IF full THEN a.file ELSE file,
                       res |-> "Ok"]

flush_packed_mut(w, file, io) ==
    IF packed_size(w) > 0
    THEN LET w1 == IF ~w.is_first THEN write_movelist(w) ELSE w
             a == append(file, w1.packed_entries, io)
         IN  IF ~a.ok
             THEN [w |-> w1, file |-> a.file, res |-> "Io"]
             ELSE [w |-> w1,
                   file |-> a.file,
                   res |-> IF io = "flush" THEN "Io" ELSE "Ok"]
    ELSE [w |-> w, file |-> file, res |-> IF io = "flush" THEN "Io" ELSE "Ok"]

\* flush_packed: the writer, the stream and the Result it returns
flush_packed(w, file, io) ==
    IF packed_size(w) > 0
    THEN LET w1 == IF ~w.is_first THEN write_movelist(w) ELSE w
             a == append(file, w1.packed_entries, io)
         IN  IF ~a.ok
             THEN [w |-> w1, file |-> a.file, res |-> "Io"]
             ELSE [w |-> [w1 EXCEPT !.packed_entries = <<>>],
                   file |-> a.file,
                   res |-> IF io = "flush" THEN "Io" ELSE "Ok"]
    ELSE [w |-> w, file |-> file, res |-> IF io = "flush" THEN "Io" ELSE "Ok"]

\* flush_and_end: `let _ = self.flush_packed();` -- the call returns the unit
\* value whatever flush_packed returned
flush_and_end(w, file, io) ==
    LET r == flush_packed(w, file, io)
    IN  [w |-> r.w, file |-> r.file, res |-> "Unit", inner |-> r.res]

\* ------------------------------------------------------------------------
\* CompressedTrainingDataFileReader
\* ------------------------------------------------------------------------

MAX_CHUNK_SIZE == 100 * 1024 * 1024

\* f is the file reader: the stream position and the count of bytes read
FileReader_new == [pos |-> 0, read_bytes |-> 0]

has_next_chunk(f, file) == f.pos < Len(file)

read_chunk_header_mut(f, file) ==
    IF f.pos + HEADER_SIZE > Len(file)
    THEN [res |-> "InvalidMagic", f |-> [f EXCEPT !.pos = Len(file)], chunk_size |-> 0]
    ELSE LET buf == SubSeq(file, f.pos + 1, f.pos + HEADER_SIZE)
             f1 == [pos |-> f.pos + HEADER_SIZE, read_bytes |-> f.read_bytes + HEADER_SIZE]
             chunk_size == buf[5] + buf[6] * 256 + buf[7] * 65536 + buf[8] * 16777216
         IN  IF SubSeq(buf, 1, 4) # MAGIC
             THEN [res |-> "InvalidMagic", f |-> f1, chunk_size |-> 0]
             ELSE IF chunk_size >= MAX_CHUNK_SIZE
             THEN [res |-> "InvalidFormat", f |-> f1, chunk_size |-> 0]
             ELSE [res |-> "Ok", f |-> f1, chunk_size |-> chunk_size]

\* read_chunk_header: res is "Ok" or the BinpackError kind
read_chunk_header(f, file) ==
    IF f.pos + HEADER_SIZE > Len(file)
    THEN [res |-> "InvalidMagic", f |-> [f EXCEPT !.pos = Len(file)], chunk_size |-> 0]
    ELSE LET buf == SubSeq(file, f.pos + 1, f.pos + HEADER_SIZE)
             f1 == [pos |-> f.pos + HEADER_SIZE, read_bytes |-> f.read_bytes + HEADER_SIZE]
             chunk_size == buf[5] + buf[6] * 256 + buf[7] * 65536 + buf[8] * 16777216
         IN  IF SubSeq(buf, 1, 4) # MAGIC
             THEN [res |-> "InvalidMagic", f |-> f1, chunk_size |-> 0]
             ELSE IF chunk_size > MAX_CHUNK_SIZE
             THEN [res |-> "InvalidFormat", f |-> f1, chunk_size |-> 0]
             ELSE [res |-> "Ok", f |-> f1, chunk_size |-> chunk_size]

read_next_chunk_mut(f, file) ==
    LET h == read_chunk_header(f, file)
    IN  IF h.res # "Ok" THEN [res |-> h.res, f |-> h.f, chunk |-> <<>>]
        ELSE IF h.f.pos + h.chunk_size > Len(file)
        THEN [res |-> "Io", f |-> [h.f EXCEPT !.pos = Len(file)], chunk |-> <<>>]
        ELSE [res |-> "Ok",
              f |-> [pos |-> h.f.pos + h.chunk_size,
                     read_bytes |-> h.f.read_bytes],
              chunk |-> SubSeq(file, h.f.pos + 1, h.f.pos + h.chunk_size)]

\* read_next_chunk and read_next_chunk_into
read_next_chunk(f, file) ==
    LET h == read_chunk_header(f, file)
    IN  IF h.res # "Ok" THEN [res |-> h.res, f |-> h.f, chunk |-> <<>>]
        ELSE IF h.f.pos + h.chunk_size > Len(file)
        THEN [res |-> "Io", f |-> [h.f EXCEPT !.pos = Len(file)], chunk |-> <<>>]
        ELSE [res |-> "Ok",
              f |-> [pos |-> h.f.pos + h.chunk_size,
                     read_bytes |-> h.f.read_bytes + h.chunk_size],
              chunk |-> SubSeq(file, h.f.pos + 1, h.f.pos + h.chunk_size)]

\* ------------------------------------------------------------------------
\* CompressedTrainingDataEntryReader
\* ------------------------------------------------------------------------

PACKED_ENTRY_SIZE == 32

\* new: res is "Ok", "EndOfFile" or the kind of the wrapped BinpackError
Reader_new(file) ==
    IF ~has_next_chunk(FileReader_new, file)
    THEN [res |-> "EndOfFile",
          r |-> [chunk |-> <<>>, movelist_reader |-> <<>>, input_file |-> FileReader_new,
                 offset |-> 0, is_end |-> TRUE]]
    ELSE LET c == read_next_chunk(FileReader_new, file)
         IN  [res |-> c.res,
              r |-> [chunk |-> c.chunk, movelist_reader |-> <<>>, input_file |-> c.f,
                     offset |-> 0, is_end |-> FALSE]]

Reader_has_next(r) == ~r.is_end

\* read_bytes: the count the file reader keeps
Reader_read_bytes(r) == r.input_file.read_bytes

is_next_entry_continuation_mut(r) ==
    /\ r.movelist_reader # <<>>
    /\ r.movelist_reader[1].num_read_plies + 1 < r.movelist_reader[1].num_plies

\* is_next_entry_continuation: a movetext reader is present and has plies left
is_next_entry_continuation(r) ==
    /\ r.movelist_reader # <<>>
    /\ PackedMoveScoreListReader_has_next(r.movelist_reader[1])

\* fetch_next_chunk_if_needed: read_next_chunk().unwrap() panics on any error
fetch_next_chunk_if_needed_mut(r, file) ==
    IF r.offset + PACKED_ENTRY_SIZE + 2 > Len(r.chunk)
    THEN IF has_next_chunk(r.input_file, file)
         THEN LET c == read_next_chunk(r.input_file, file)
              IN  IF c.res # "Ok"
                  THEN [r |-> [r EXCEPT !.input_file = c.f], panic |-> TRUE]
                  ELSE [r |-> [r EXCEPT !.input_file = c.f, !.chunk = c.chunk],
                        panic |-> FALSE]
         ELSE [r |-> [r EXCEPT !.is_end = TRUE], panic |-> FALSE]
    ELSE [r |-> r, panic |-> FALSE]

fetch_next_chunk_if_needed(r, file) ==
    IF r.offset + PACKED_ENTRY_SIZE + 2 > Len(r.chunk)
    THEN IF has_next_chunk(r.input_file, file)
         THEN LET c == read_next_chunk(r.input_file, file)
              IN  IF c.res # "Ok"
                  THEN [r |-> [r EXCEPT !.input_file = c.f], panic |-> TRUE]
                  ELSE [r |-> [r EXCEPT !.input_file = c.f, !.chunk = c.chunk,
                                        !.offset = 0],
                        panic |-> FALSE]
         ELSE [r |-> [r EXCEPT !.is_end = TRUE], panic |-> FALSE]
    ELSE [r |-> r, panic |-> FALSE]

\* read_entry and read_plies: the stem and the count at the current offset
read_entry(r) ==
    unpack_entry(SubSeq(r.chunk, r.offset + 1, r.offset + PACKED_ENTRY_SIZE))

read_plies(r) ==
    r.chunk[r.offset + PACKED_ENTRY_SIZE + 1] * 256 + r.chunk[r.offset + PACKED_ENTRY_SIZE + 2]

\* next, its last step: the sample is returned unless the chunk fetch panicked
ReturnAfterFetch(x, entry) == [r |-> x.r, entry |-> entry, panic |-> x.panic]

\* next while a movetext is read: mr is the list reader after next_entry
NextFromMovetext(r, file, mr) ==
    IF ~PackedMoveScoreListReader_has_next(mr)
    THEN ReturnAfterFetch(
             fetch_next_chunk_if_needed(
                 [r EXCEPT !.offset = @ + PackedMoveScoreListReader_num_read_bytes(mr),
                           !.movelist_reader = <<>>], file),
             mr.entry)
    ELSE [r |-> [r EXCEPT !.movelist_reader = <<mr>>], entry |-> mr.entry, panic |-> FALSE]

\* next at a stem: entry and num_plies are what read_entry and read_plies gave
NextFromStem(r, file, entry, num_plies) ==
    IF num_plies > 0
    THEN [r |-> [r EXCEPT !.offset = @ + PACKED_ENTRY_SIZE + 2,
                          !.movelist_reader =
                              <<PackedMoveScoreListReader_new(entry, num_plies)>>],
          entry |-> entry, panic |-> FALSE]
    ELSE ReturnAfterFetch(
             fetch_next_chunk_if_needed([r EXCEPT !.offset = @ + PACKED_ENTRY_SIZE + 2], file),
             entry)

\* next: the reader afterwards, the sample returned, and whether the call
\* panicked instead of returning (a stem read past the end of the chunk
\* panics on the slice bounds)
Reader_next(r, file) ==
    IF r.movelist_reader # <<>>
    THEN NextFromMovetext(r, file,
             next_entry(r.movelist_reader[1], SubSeq(r.chunk, r.offset + 1, Len(r.chunk))))
    ELSE IF r.offset + PACKED_ENTRY_SIZE + 2 > Len(r.chunk)
    THEN [r |-> r, entry |-> r.chunk, panic |-> TRUE]
    ELSE NextFromStem(r, file, read_entry(r), read_plies(r))

\* ------------------------------------------------------------------------
\* State
\* ------------------------------------------------------------------------

VARIABLES
    arg,        \* codec harness: the value handed to an encoder
    code,       \* codec harness: the encoded form
    back,       \* codec harness: the decoded value
    phase,      \* codec harness: which conversions have been applied
    pos,        \* chess walk: the current Position
    book,       \* the scripted moves still to be played
    free,       \* how many moves may still be chosen freely among the legal ones
    writer,     \* CompressedTrainingDataEntryWriter
    wstat,      \* "absent", "live" or "dropped"
    file,       \* the bytes of the output stream
    written,    \* the samples write_entry accepted, in order
    call,       \* the last call on the writer and what it returned
    cut,        \* the stream length at which the first writer was dropped
    sessions,   \* how many writers have been created on the stream
    tamper,     \* what was done to the stream between writing and reading
    reader,     \* CompressedTrainingDataEntryReader
    rstat,      \* "absent", "open", "error" or "panic"
    rerr,       \* what CompressedTrainingDataEntryReader::new returned
    readlog     \* the samples next() returned, in order

vars == <<arg, code, back, phase, pos, book, free, writer, wstat, file, written,
          call, cut, sessions, tamper, reader, rstat, rerr, readlog>>

codecVars == <<arg, code, back, phase>>
chessVars == <<pos, book, free>>
writerVars == <<writer, wstat, file, written, call, cut, sessions, tamper>>
readerVars == <<reader, rstat, rerr, readlog>>

NoCall == [op |-> "none", res |-> "none", inner |-> "none"]
NoTamper == [kind |-> "none", at |-> 0]

CodecIdle == arg = 0 /\ code = 0 /\ back = 0 /\ phase = "idle"
ChessIdle == pos = Position_new /\ book = <<>> /\ free = 0
WriterIdle ==
    /\ writer = Writer_new /\ wstat = "absent" /\ file = <<>> /\ written = <<>>
    /\ call = NoCall /\ cut = 0 /\ sessions = 0 /\ tamper = NoTamper
ReaderIdle ==
    /\ reader = Reader_new(<<>>).r /\ rstat = "absent" /\ rerr = "none" /\ readlog = <<>>

\* ------------------------------------------------------------------------
\* The zig-zag conversions over all 16-bit values
\* ------------------------------------------------------------------------

InitArith ==
    /\ arg \in 0 .. 65535 /\ code = 0 /\ back = 0 /\ phase = "start"
    /\ ChessIdle /\ WriterIdle /\ ReaderIdle

\* signed_to_unsigned on the bit pattern read as an i16
SignedToUnsigned ==
    /\ phase = "start"
    /\ code' = signed_to_unsigned(AsI16(arg))
    /\ phase' = "s2u"
    /\ UNCHANGED <<arg, back, chessVars, writerVars, readerVars>>

UnsignedToSignedBack ==
    /\ phase = "s2u"
    /\ back' = unsigned_to_signed(code)
    /\ phase' = "s2u_u2s"
    /\ UNCHANGED <<arg, code, chessVars, writerVars, readerVars>>

\* unsigned_to_signed on the bit pattern read as a u16
UnsignedToSigned ==
    /\ phase = "start"
    /\ code' = unsigned_to_signed(arg)
    /\ phase' = "u2s"
    /\ UNCHANGED <<arg, back, chessVars, writerVars, readerVars>>

SignedToUnsignedBack ==
    /\ phase = "u2s"
    /\ back' = signed_to_unsigned(code)
    /\ phase' = "u2s_s2u"
    /\ UNCHANGED <<arg, code, chessVars, writerVars, readerVars>>

NextArith ==
    \/ SignedToUnsigned
    \/ UnsignedToSignedBack
    \/ UnsignedToSigned
    \/ SignedToUnsignedBack

SpecArith == InitArith /\ [][NextArith]_vars

\* C7: signed_to_unsigned sends 0, -1, 1, -2, 2, ... to 0, 1, 2, 3, 4, ... (so
\* it is a bijection of the 16-bit signed values onto the 16-bit unsigned
\* ones), and unsigned_to_signed undoes it in both orders of composition.
C7_ZigZagBijection ==
    /\ phase \in {"s2u", "s2u_u2s"} =>
          /\ code \in 0 .. 65535
          /\ code = (IF AsI16(arg) >= 0 THEN 2 * AsI16(arg) ELSE (0 - 2 * AsI16(arg)) - 1)
    /\ phase = "s2u_u2s" => back = AsI16(arg)
    /\ phase \in {"u2s", "u2s_s2u"} => code \in -32768 .. 32767
    /\ phase = "u2s_s2u" => back = arg

C7_Witness ==
    /\ phase = "s2u_u2s" /\ AsI16(arg) = -2 /\ code = 3 /\ back = -2

\* ------------------------------------------------------------------------
\* The move codec over every valid move
\* ------------------------------------------------------------------------

PromotionMoves(c) ==
    {Move_promotion(f, t, MakePiece(pt, c)) :
        f \in {s \in Squares : RankOf(s) = last_pawn_rank(c)},
        t \in Squares,
        pt \in PROMOTION_PIECES}

NormalMoves == UNION {{Move_normal(f, t) : t \in Squares \ {f}} : f \in Squares}

ValidPromotions ==
    {m \in PromotionMoves(White) \cup PromotionMoves(Black) :
        m.to \in (attacks_pawn(piece_color(m.promoted), m.from)
                    \cup {m.from + forward(piece_color(m.promoted))})}

EnPassantMoves(c) ==
    UNION {{Move_en_passant(f, t) : t \in attacks_pawn(c, f)} :
              f \in {s \in Squares : RankOf(s) = (IF c = White THEN 4 ELSE 3)}}

CastleMoves == {Move_from_castle(ct, c) : ct \in {Short, Long}, c \in {White, Black}}

ValidMoves ==
    NormalMoves \cup ValidPromotions \cup EnPassantMoves(White) \cup EnPassantMoves(Black)
    \cup CastleMoves \cup {Move_null}

InitMove ==
    /\ arg \in ValidMoves /\ code = 0 /\ back = 0 /\ phase = "move"
    /\ ChessIdle /\ WriterIdle /\ ReaderIdle

FromMove ==
    /\ phase = "move"
    /\ code' = CompressedMove_from_move(arg)
    /\ phase' = "compressed_move"
    /\ UNCHANGED <<arg, back, chessVars, writerVars, readerVars>>

DecompressMove ==
    /\ phase = "compressed_move"
    /\ back' = CompressedMove_decompress(code)
    /\ phase' = "decompressed_move"
    /\ UNCHANGED <<arg, code, chessVars, writerVars, readerVars>>

NextMove ==
    \/ FromMove
    \/ DecompressMove

SpecMove == InitMove /\ [][NextMove]_vars

\* C6: compressing a valid move and decompressing the 16-bit code gives the
\* move back, and only the null move has the code zero.
C6_MoveRoundTrip ==
    /\ phase \in {"compressed_move", "decompressed_move"} =>
          /\ code \in 0 .. 65535
          /\ (code = 0) <=> (arg = Move_null)
    /\ phase = "decompressed_move" => back = arg

C6_Witness ==
    /\ phase = "decompressed_move"
    /\ arg.mtype = Promotion
    /\ arg.promoted = MakePiece(Queen, Black)
    /\ back = arg

\* ------------------------------------------------------------------------
\* Positions reached by do_move from the initial position
\* ------------------------------------------------------------------------

\* scripted games from the initial position; squares are rank * 8 + file

\* 1.e4 e5 2.Nf3 Nf6 3.Bc4 Bc5 4.d3 d6 5.Nc3 Nc6 6.Bg5 Bg4 7.Qd2 Qd7
\* 8.O-O-O O-O 9.Rhe1 Rfe8
LineCastle ==
    <<Move_normal(12, 28), Move_normal(52, 36), Move_normal(6, 21), Move_normal(62, 45),
      Move_normal(5, 26), Move_normal(61, 34), Move_normal(11, 19), Move_normal(51, 43),
      Move_normal(1, 18), Move_normal(57, 42), Move_normal(2, 38), Move_normal(58, 30),
      Move_normal(3, 11), Move_normal(59, 51), Move_castle(E1, A1), Move_castle(E8, H8),
      Move_normal(7, 4), Move_normal(61, 60)>>

\* 1.a4 a5 2.Ra3 Ra6 3.Nf3 Nf6 4.g3 g6 5.Bg2 Bg7 6.O-O O-O
LineShortOnly ==
    <<Move_normal(8, 24), Move_normal(48, 32), Move_normal(0, 16), Move_normal(56, 40),
      Move_normal(6, 21), Move_normal(62, 45), Move_normal(14, 22), Move_normal(54, 46),
      Move_normal(5, 14), Move_normal(61, 54), Move_castle(E1, H1), Move_castle(E8, H8)>>

\* 1.e4 a6 2.e5 d5 3.exd6 e.p. cxd6
LineEp ==
    <<Move_normal(12, 28), Move_normal(48, 40), Move_normal(28, 36), Move_normal(51, 35),
      Move_en_passant(36, 43), Move_normal(50, 43)>>

\* 1.h3 a5 2.h4 a4 3.b4 axb3 e.p. 4.cxb3
LineEpBlack ==
    <<Move_normal(15, 23), Move_normal(48, 32), Move_normal(23, 31), Move_normal(32, 24),
      Move_normal(9, 25), Move_en_passant(24, 17), Move_normal(10, 17)>>

\* 1.a4 b5 2.axb5 a6 3.bxa6 Bb7 4.a7 Bc6 5.axb8=Q Rxb8
LinePromo ==
    <<Move_normal(8, 24), Move_normal(49, 33), Move_normal(24, 33), Move_normal(48, 40),
      Move_normal(33, 40), Move_normal(58, 49), Move_normal(40, 48), Move_normal(49, 42),
      Move_promotion(48, 57, MakePiece(Queen, White)), Move_normal(56, 57)>>

\* 1.h3 a5 2.b4 axb4 3.a3 bxa3 4.Bb2 a2 5.Bc3 axb1=N 6.Rxb1
LinePromoBlack ==
    <<Move_normal(15, 23), Move_normal(48, 32), Move_normal(9, 25), Move_normal(32, 25),
      Move_normal(8, 16), Move_normal(25, 16), Move_normal(2, 9), Move_normal(16, 8),
      Move_normal(9, 18), Move_promotion(8, 1, MakePiece(Knight, Black)),
      Move_normal(0, 1)>>

Books == {LineCastle, LineShortOnly, LineEp, LineEpBlack, LinePromo, LinePromoBlack}

\* the position after the first k moves of a line
RECURSIVE PositionAfter(_, _)
PositionAfter(line, k) ==
    IF k = 0 THEN Position_new ELSE do_move(PositionAfter(line, k - 1), line[k])

InitChess ==
    /\ pos = Position_new /\ book \in Books /\ free = FreePlies
    /\ arg = 0 /\ code = 0 /\ back = 0 /\ phase = "walk"
    /\ WriterIdle /\ ReaderIdle

\* the next move of the scripted game, if it is legal
BookMove ==
    /\ phase = "walk"
    /\ book # <<>>
    /\ Head(book) \in LegalMoves(pos)
    /\ pos' = do_move(pos, Head(book))
    /\ book' = Tail(book)
    /\ UNCHANGED <<free, codecVars, writerVars, readerVars>>

\* any legal move, leaving the scripted game
FreeMove ==
    /\ phase = "walk"
    /\ free > 0
    /\ \E m \in LegalMoves(pos) :
          /\ pos' = do_move(pos, m)
          /\ book' = <<>>
          /\ free' = free - 1
    /\ UNCHANGED <<codecVars, writerVars, readerVars>>

CompressPosition ==
    /\ phase = "walk"
    /\ code' = CompressedPosition_write_to_big_endian(CompressedPosition_compress(pos))
    /\ phase' = "compressed_pos"
    /\ UNCHANGED <<arg, back, chessVars, writerVars, readerVars>>

DecompressPosition ==
    /\ phase = "compressed_pos"
    /\ back' = CompressedPosition_decompress(CompressedPosition_read_from_big_endian(code))
    /\ phase' = "decompressed_pos"
    /\ UNCHANGED <<arg, code, chessVars, writerVars, readerVars>>

NextChess ==
    \/ BookMove
    \/ FreeMove
    \/ CompressPosition
    \/ DecompressPosition

SpecChess == InitChess /\ [][NextChess]_vars

\* piece placement, side to move, castling rights and en-passant square
SameBoard(p, q) ==
    /\ \A sq \in Squares : piece_at(p, sq) = piece_at(q, sq)
    /\ p.stm = q.stm
    /\ p.castling_rights = q.castling_rights
    /\ p.enpassant = q.enpassant

\* C5: a position reached by do_move from the initial position, compressed and
\* decompressed, has the same piece on every square, the same side to move,
\* the same castling rights and the same en-passant square.
C5_PositionRoundTrip ==
    phase = "decompressed_pos" => SameBoard(back, pos)

C5_Witness ==
    /\ phase = "decompressed_pos"
    /\ pos.stm = Black
    /\ pos.enpassant = 17
    /\ pos.castling_rights = CR_ALL
    /\ SameBoard(back, pos)

\* ------------------------------------------------------------------------
\* The 32-byte stem of a sample
\* ------------------------------------------------------------------------

StemScores == {-32768, -1, 32767}
StemPlies == {0, 16383, 16384, 65535}
Results == {-1, 0, 1}

InitStem ==
    /\ pos = Position_new /\ book \in Books /\ free = 0
    /\ arg = 0 /\ code = 0 /\ back = 0 /\ phase = "walk"
    /\ WriterIdle /\ ReaderIdle

PackEntry ==
    /\ phase = "walk"
    /\ \E mv \in LegalMoves(pos), score \in StemScores, ply \in StemPlies, result \in Results :
          /\ arg' = MakeEntry(pos, mv, score, ply, result)
          /\ code' = from_entry(MakeEntry(pos, mv, score, ply, result))
    /\ phase' = "packed"
    /\ UNCHANGED <<back, chessVars, writerVars, readerVars>>

UnpackEntry ==
    /\ phase = "packed"
    /\ back' = unpack_entry(code)
    /\ phase' = "unpacked"
    /\ UNCHANGED <<arg, code, chessVars, writerVars, readerVars>>

NextStem ==
    \/ BookMove
    \/ PackEntry
    \/ UnpackEntry

SpecStem == InitStem /\ [][NextStem]_vars

\* C4 as stated: for any 16-bit ply, any 16-bit score and a result in
\* {-1, 0, 1}, from_entry then unpack_entry returns the same move, score, ply,
\* result and rule-50 counter and the same board.
C4_StemRoundTripAnyPly ==
    phase = "unpacked" =>
        /\ back.mv = arg.mv
        /\ back.score = arg.score
        /\ back.ply = arg.ply
        /\ back.result = arg.result
        /\ rule50_counter(back.pos) = rule50_counter(arg.pos)
        /\ SameBoard(back.pos, arg.pos)

\* ------------------------------------------------------------------------
\* Writing samples and reading them back
\* ------------------------------------------------------------------------

\* scores, plies and results of the samples that are written
StartScores == {-201, 32767}
ContScores == {-32768, 254}
StartPlies == {68, 16383, 16384}

CanWrite ==
    /\ wstat = "live"
    /\ book # <<>>
    /\ Len(written) < MaxWrites * sessions

\* one call of write_entry; a sample that was accepted is logged and the game
\* moves on to the position after its move
DoWrite(e, io) ==
    LET x == write_entry(writer, file, e, io)
    IN  /\ writer' = x.w
        /\ file' = x.file
        /\ call' = [op |-> "write_entry", res |-> x.res, inner |-> x.res]
        /\ written' = IF x.res = "Ok" THEN Append(written, e) ELSE written
        /\ pos' = IF x.res = "Ok" THEN do_move(pos, e.mv) ELSE pos
        /\ book' = IF x.res = "Ok" THEN Tail(book) ELSE book

\* the first sample of a game, at the position the scripted game has reached
WriteFirst ==
    /\ phase = "walk"
    /\ CanWrite
    /\ writer.is_first
    /\ \E score \in StartScores, ply \in StartPlies, result \in Results :
          DoWrite(MakeEntry(pos, Head(book), score, ply, result), "ok")
    /\ phase' = "game"
    /\ UNCHANGED <<arg, code, back, free, wstat, cut, sessions, tamper, readerVars>>

\* the sample that continues the last one: the position after its move, the
\* next ply, the result seen from the other side
WriteCont ==
    /\ phase \in {"game", "chains"}
    /\ CanWrite
    /\ ~writer.is_first
    /\ \E score \in ContScores :
          LET last == writer.last_entry
          IN  DoWrite(MakeEntry(pos, Head(book), score, (last.ply + 1) % 65536,
                                WrappingNeg16(last.result)), "ok")
    /\ UNCHANGED <<arg, code, back, phase, free, wstat, cut, sessions, tamper, readerVars>>

\* a sample that starts a chain: it does not continue the last one
ChainStem(p, m) == MakeEntry(p, m, -201, 68, 1)

WriteStem ==
    /\ phase = "chains"
    /\ CanWrite
    /\ ~is_continuation(writer.last_entry, ChainStem(pos, Head(book)))
    /\ DoWrite(ChainStem(pos, Head(book)), "ok")
    /\ UNCHANGED <<arg, code, back, phase, free, wstat, cut, sessions, tamper, readerVars>>

\* write_entry when the chunk it appends cannot be written
WriteStemFails ==
    /\ phase = "chains"
    /\ CanWrite
    /\ ~writer.is_first
    /\ packed_size(write_movelist(writer)) >= SUGGESTED_CHUNK_SIZE
    /\ ~is_continuation(writer.last_entry, ChainStem(pos, Head(book)))
    /\ \E io \in {"header", "payload"} : DoWrite(ChainStem(pos, Head(book)), io)
    /\ wstat' = "failed"
    /\ UNCHANGED <<arg, code, back, phase, free, cut, sessions, tamper, readerVars>>

FlushAndEnd ==
    /\ wstat = "live"
    /\ LET x == flush_and_end(writer, file, "ok")
       IN  /\ writer' = x.w
           /\ file' = x.file
           /\ call' = [op |-> "flush_and_end", res |-> x.res, inner |-> x.inner]
    /\ wstat' = "ended"
    /\ UNCHANGED <<written, cut, sessions, tamper, codecVars, chessVars, readerVars>>

\* flush_and_end when the stream fails: while the chunk header or the chunk
\* payload is written, or when the stream is flushed
FlushAndEndFails ==
    /\ wstat = "live"
    /\ \E io \in {"header", "payload", "flush"} :
          /\ io = "flush" \/ packed_size(writer) > 0
          /\ LET x == flush_and_end(writer, file, io)
             IN  /\ writer' = x.w
                 /\ file' = x.file
                 /\ call' = [op |-> "flush_and_end", res |-> x.res, inner |-> x.inner]
    /\ wstat' = "ended"
    /\ UNCHANGED <<written, cut, sessions, tamper, codecVars, chessVars, readerVars>>

\* the caller goes on using the writer after flush_and_end
Resume ==
    /\ wstat = "ended"
    /\ wstat' = "live"
    /\ UNCHANGED <<writer, file, written, call, cut, sessions, tamper,
                   codecVars, chessVars, readerVars>>

\* Drop for the writer
Drop ==
    /\ wstat \in {"live", "ended"}
    /\ LET x == flush_packed(writer, file, "ok")
       IN  /\ writer' = x.w
           /\ file' = x.file
           /\ call' = [op |-> "drop", res |-> "Unit", inner |-> x.res]
    /\ wstat' = "dropped"
    /\ UNCHANGED <<written, cut, sessions, tamper, codecVars, chessVars, readerVars>>

\* a new writer that appends to the stream the dropped writer left: the stream
\* becomes the bytes of the first file followed by the bytes of the second
NewWriter ==
    /\ wstat = "dropped"
    /\ rstat = "absent"
    /\ sessions < MaxSessions
    /\ writer' = Writer_new
    /\ wstat' = "live"
    /\ sessions' = sessions + 1
    /\ cut' = Len(file)
    /\ call' = NoCall
    /\ UNCHANGED <<file, written, tamper, codecVars, chessVars, readerVars>>

\* CompressedTrainingDataEntryReader::new on the stream
OpenReader ==
    /\ wstat = "dropped"
    /\ rstat = "absent"
    /\ LET o == Reader_new(file)
       IN  /\ reader' = o.r
           /\ rstat' = IF o.res = "Ok" THEN "open" ELSE "error"
           /\ rerr' = IF o.res = "Ok" THEN "none" ELSE o.res
    /\ readlog' = <<>>
    /\ UNCHANGED <<codecVars, chessVars, writerVars>>

\* `while reader.has_next() { reader.next() }`: one turn of the loop
ReadNext ==
    /\ rstat = "open"
    /\ Reader_has_next(reader)
    /\ LET x == Reader_next(reader, file)
       IN  /\ reader' = x.r
           /\ rstat' = IF x.panic THEN "panic" ELSE "open"
           /\ readlog' = IF x.panic THEN readlog ELSE Append(readlog, x.entry)
    /\ UNCHANGED <<rerr, codecVars, chessVars, writerVars>>

\* the reading loop has ended
ReadDone == rstat = "open" /\ ~Reader_has_next(reader)

\* the samples the reading loop returns for a stream
RECURSIVE ReadFrom(_, _)
ReadFrom(r, f) ==
    IF ~Reader_has_next(r) THEN <<>>
    ELSE LET x == Reader_next(r, f)
         IN  IF x.panic THEN <<>> ELSE <<x.entry>> \o ReadFrom(x.r, f)

SamplesOf(f) ==
    LET o == Reader_new(f)
    IN  IF o.res = "Ok" THEN ReadFrom(o.r, f) ELSE <<>>

WriterFresh ==
    /\ writer = Writer_new /\ wstat = "live" /\ file = <<>> /\ written = <<>>
    /\ call = NoCall /\ cut = 0 /\ sessions = 1 /\ tamper = NoTamper

\* position, move, score, ply, result and rule-50 counter of two samples agree
SameSample(a, b) ==
    /\ SameBoard(a.pos, b.pos)
    /\ rule50_counter(a.pos) = rule50_counter(b.pos)
    /\ a.mv = b.mv
    /\ a.score = b.score
    /\ a.ply = b.ply
    /\ a.result = b.result

\* ------------------------------------------------------------------------
\* One game written by a fresh writer and read back
\* ------------------------------------------------------------------------

Init ==
    /\ pos = Position_new /\ book \in Books /\ free = 0
    /\ arg = 0 /\ code = 0 /\ back = 0 /\ phase = "walk"
    /\ WriterFresh /\ ReaderIdle

Next ==
    \/ BookMove
    \/ WriteFirst
    \/ WriteCont
    \/ FlushAndEnd
    \/ Drop
    \/ OpenReader
    \/ ReadNext

Spec == Init /\ [][Next]_vars

\* C1: a game written in order by a fresh writer that is then closed reads
\* back, once has_next is false, as exactly the samples written: same
\* position, move, score, ply and result, in the same order, none missing and
\* none extra.
C1_ChainRoundTrip ==
    /\ rstat # "panic"
    /\ ReadDone =>
          /\ Len(readlog) = Len(written)
          /\ \A i \in 1..Len(written) : SameSample(readlog[i], written[i])

\* ------------------------------------------------------------------------
\* The chunks one writer appends
\* ------------------------------------------------------------------------

InitChains ==
    /\ pos = Position_new /\ book \in Books /\ free = 0
    /\ arg = 0 /\ code = 0 /\ back = 0 /\ phase = "chains"
    /\ WriterFresh /\ ReaderIdle

NextWriter ==
    \/ WriteStem
    \/ WriteCont
    \/ FlushAndEnd
    \/ Resume

SpecWriter == InitChains /\ [][NextWriter]_vars

\* the length field of the chunk header at offset at
ChunkSizeAt(f, at) ==
    f[at + 5] + f[at + 6] * 256 + f[at + 7] * 65536 + f[at + 8] * 16777216

\* the payloads of the framed chunks of a stream
RECURSIVE ChunksFrom(_, _)
ChunksFrom(f, at) ==
    IF at + HEADER_SIZE > Len(f) THEN <<>>
    ELSE LET n == ChunkSizeAt(f, at)
         IN  IF at + HEADER_SIZE + n > Len(f) THEN <<>>
             ELSE <<SubSeq(f, at + HEADER_SIZE + 1, at + HEADER_SIZE + n)>>
                  \o ChunksFrom(f, at + HEADER_SIZE + n)

FramedChunks(f) == ChunksFrom(f, 0)

\* the last sample of the chain that starts at ss[i]
RECURSIVE RunEnd(_, _)
RunEnd(ss, i) ==
    IF i < Len(ss) /\ is_continuation(ss[i], ss[i + 1]) THEN RunEnd(ss, i + 1) ELSE i

\* the movetext of the continuations ss[i+1..j] of the stem ss[i]
RECURSIVE MoveList(_, _, _)
MoveList(ss, i, j) ==
    IF j = i THEN PackedMoveScoreList_clear(PackedMoveScoreList_new, ss[i])
    ELSE add_move_score(MoveList(ss, i, j - 1), ss[j].pos, ss[j].mv, ss[j].score)

\* a complete chain: stem, 16-bit count, movetext of that many continuations
ChainBytes(ss, i, j) ==
    from_entry(ss[i]) \o U16ToBigEndian(j - i)
    \o (IF j > i THEN MoveList(ss, i, j).writer.movetext ELSE <<>>)

RECURSIVE ChainsFrom(_, _)
ChainsFrom(ss, i) ==
    IF i > Len(ss) THEN <<>>
    ELSE LET j == RunEnd(ss, i)
         IN  ChainBytes(ss, i, j) \o ChainsFrom(ss, j + 1)

\* the bytes of the complete chains of a run of samples
WholeChains(ss) == ChainsFrom(ss, 1)

\* C2: after any sequence of write_entry and flush_and_end calls on one
\* writer, every framed chunk of the output begins with a stem and consists
\* only of complete chains (stem, count, movetext of that many continuations)
\* of samples that were written.
C2_ChunksHoldWholeChains ==
    \A k \in 1..Len(FramedChunks(file)) :
        \E i \in 1..Len(written), j \in 1..Len(written) :
            /\ i <= j
            /\ FramedChunks(file)[k] = WholeChains(SubSeq(written, i, j))

\* ------------------------------------------------------------------------
\* A stream that fails under the writer
\* ------------------------------------------------------------------------

NextFail ==
    \/ WriteStem
    \/ WriteCont
    \/ WriteStemFails
    \/ FlushAndEnd
    \/ FlushAndEndFails

SpecFail == InitChains /\ [][NextFail]_vars

\* C8: when appending the final chunk or flushing the stream fails during
\* flush_and_end, the caller of flush_and_end is given the failure.
C8_FlushAndEndReportsFailure ==
    (call.op = "flush_and_end" /\ call.inner = "Io") => call.res = "Io"

\* ------------------------------------------------------------------------
\* Two files, one after the other
\* ------------------------------------------------------------------------

NextConcat ==
    \/ WriteStem
    \/ WriteCont
    \/ Drop
    \/ NewWriter
    \/ OpenReader
    \/ ReadNext

SpecConcat == InitChains /\ [][NextConcat]_vars

\* the first file and the second file of the stream
FileA == SubSeq(file, 1, cut)
FileB == SubSeq(file, cut + 1, Len(file))

\* C3: reading the bytes of file A followed by the bytes of file B yields the
\* samples of A followed by the samples of B; a reader that has just moved to
\* a chunk is at offset 0 with no active movetext.
C3_ConcatenationReadsBoth ==
    LET expected == SamplesOf(FileA) \o SamplesOf(FileB)
    IN  /\ rstat \in {"absent", "open"} \/ file = <<>>
        /\ rstat = "open" =>
              /\ Len(readlog) <= Len(expected)
              /\ readlog = SubSeq(expected, 1, Len(readlog))
              /\ reader.offset = 0 => reader.movelist_reader = <<>>
        /\ ReadDone => readlog = expected

C3_Witness ==
    /\ ReadDone
    /\ sessions = 2
    /\ Len(FramedChunks(FileA)) = 2
    /\ Len(SamplesOf(FileA)) = 3
    /\ Len(FramedChunks(FileB)) = 1
    /\ Len(readlog) = 6
    /\ readlog[5].mv.mtype = EnPassant
    /\ readlog[5].score = -32768

\* ------------------------------------------------------------------------
\* A stream that was cut short or damaged before it is read
\* ------------------------------------------------------------------------

\* the offsets at which the chunk headers of a stream start
RECURSIVE ChunkStartsFrom(_, _)
ChunkStartsFrom(f, at) ==
    IF at + HEADER_SIZE > Len(f) THEN {}
    ELSE {at} \cup ChunkStartsFrom(f, at + HEADER_SIZE + ChunkSizeAt(f, at))

ChunkStarts(f) == ChunkStartsFrom(f, 0)

\* the stream ends inside its first chunk: inside the header, right after the
\* header, or inside the payload
Truncate ==
    /\ wstat = "dropped"
    /\ rstat = "absent"
    /\ tamper = NoTamper
    /\ Len(file) >= HEADER_SIZE
    /\ \E n \in {1, HEADER_SIZE - 1, HEADER_SIZE, HEADER_SIZE + 1,
                 HEADER_SIZE + ChunkSizeAt(file, 0) - 1} :
          /\ file' = SubSeq(file, 1, n)
          /\ tamper' = [kind |-> "truncated", at |-> n]
    /\ UNCHANGED <<writer, wstat, written, call, cut, sessions,
                   codecVars, chessVars, readerVars>>

\* the header of one chunk does not start with BINP
CorruptMagic ==
    /\ wstat = "dropped"
    /\ rstat = "absent"
    /\ tamper = NoTamper
    /\ \E at \in ChunkStarts(file), k \in {1, 4} :
          /\ file' = [file EXCEPT ![at + k] = 0]
          /\ tamper' = [kind |-> "magic", at |-> at]
    /\ UNCHANGED <<writer, wstat, written, call, cut, sessions,
                   codecVars, chessVars, readerVars>>

NextTamper ==
    \/ WriteStem
    \/ WriteCont
    \/ Drop
    \/ Truncate
    \/ CorruptMagic
    \/ OpenReader
    \/ ReadNext

SpecTamper == InitChains /\ [][NextTamper]_vars

\* C9: opening a reader on a stream that ends inside its first chunk returns
\* the EndOfFile result.
C9_TruncatedOpenIsEndOfFile ==
    (tamper.kind = "truncated" /\ rstat # "absent") =>
        (rstat = "error" /\ rerr = "EndOfFile")

\* C10: once the reader has loaded a chunk whose header does not start with
\* BINP, at open or during next(), reading has ended with the invalid-magic
\* error and the samples returned are those of the chunks before it.
C10_BadMagicIsReported ==
    (tamper.kind = "magic" /\ reader.input_file.pos > tamper.at) =>
        /\ rstat = "error"
        /\ rerr = "InvalidMagic"
        /\ readlog = SamplesOf(SubSeq(file, 1, tamper.at))

\* ------------------------------------------------------------------------
\* Chunk headers with a large length field
\* ------------------------------------------------------------------------

\* how many well-formed chunks stand before the header under test
MaxChunks == 3

\* length fields around MAX_CHUNK_SIZE, and the largest the model's integers hold
LengthFields == {MAX_CHUNK_SIZE - 1, MAX_CHUNK_SIZE, MAX_CHUNK_SIZE + 1, 2147483647}

InitHeader == CodecIdle /\ ChessIdle /\ WriterIdle /\ ReaderIdle

\* the stream gets one more framed chunk
PutChunk ==
    /\ tamper = NoTamper
    /\ cut < MaxChunks
    /\ \E data \in {<<>>, <<7>>, <<7, 9>>} : file' = append(file, data, "ok").file
    /\ cut' = cut + 1
    /\ UNCHANGED <<writer, wstat, written, call, sessions, tamper,
                   codecVars, chessVars, readerVars>>

\* the stream ends with a header announcing a large payload and a few bytes
PutHeader ==
    /\ tamper = NoTamper
    /\ \E len \in LengthFields, rest \in {<<>>, <<1>>, <<1, 2, 3>>} :
          file' = file \o write_chunk_header(len) \o rest
    /\ tamper' = [kind |-> "length", at |-> Len(file)]
    /\ UNCHANGED <<writer, wstat, written, call, cut, sessions,
                   codecVars, chessVars, readerVars>>

\* read_next_chunk on the stream; call.inner is what read_chunk_header returned
ReadChunk ==
    /\ tamper.kind = "length"
    /\ rstat \in {"absent", "open"}
    /\ has_next_chunk(reader.input_file, file)
    /\ LET c == read_next_chunk(reader.input_file, file)
       IN  /\ reader' = [reader EXCEPT !.input_file = c.f, !.chunk = c.chunk]
           /\ rstat' = IF c.res = "Ok" THEN "open" ELSE "error"
           /\ rerr' = IF c.res = "Ok" THEN "none" ELSE c.res
    /\ call' = [op |-> "read_next_chunk", res |-> rerr',
                inner |-> read_chunk_header(reader.input_file, file).res]
    /\ UNCHANGED <<readlog, writer, wstat, file, written, cut, sessions, tamper,
                   codecVars, chessVars>>

NextHeader == PutChunk \/ PutHeader \/ ReadChunk

SpecHeader == InitHeader /\ [][NextHeader]_vars

\* the header under test has been read
LargeHeaderRead ==
    /\ tamper.kind = "length"
    /\ call.op = "read_next_chunk"
    /\ reader.input_file.pos >= tamper.at + HEADER_SIZE

\* C11: a chunk header whose length field is above 100 MiB is rejected as an
\* invalid format with the stream standing right after the header, so that no
\* payload byte of the chunk was read; a length field of exactly 100 MiB passes
\* read_chunk_header
C11_LargeChunkRejected ==
    LargeHeaderRead =>
        /\ (ChunkSizeAt(file, tamper.at) > 104857600) =>
              (/\ rerr = "InvalidFormat"
               /\ reader.input_file.pos = tamper.at + HEADER_SIZE
               /\ reader.chunk = <<>>)
        /\ (ChunkSizeAt(file, tamper.at) = 104857600) =>
              (call.inner = "Ok" /\ rerr # "InvalidFormat")

C11_Witness ==
    /\ LargeHeaderRead
    /\ tamper.at > 2 * HEADER_SIZE
    /\ ChunkSizeAt(file, tamper.at) = 104857601
    /\ Len(file) = tamper.at + HEADER_SIZE + 3
    /\ rerr = "InvalidFormat"

\* ------------------------------------------------------------------------
\* What the reader announces about the sample it returns next
\* ------------------------------------------------------------------------

\* the k-th sample written went into the movetext of the chain before it
StoredAsContinuation(k) ==
    /\ k > 1
    /\ k <= Len(written)
    /\ is_continuation(written[k - 1], written[k])

\* C12: while has_next() holds, is_next_entry_continuation() is true exactly
\* when the sample the next call of next() returns was stored as a
\* continuation in a movetext and not as a stem; it is false before the first
\* call of next() and after the last continuation of a chain
C12_AnnouncesContinuation ==
    (rstat = "open" /\ Reader_has_next(reader)) =>
        (is_next_entry_continuation(reader) <=> StoredAsContinuation(Len(readlog) + 1))

C12_Witness ==
    /\ rstat = "open"
    /\ Reader_has_next(reader)
    /\ Len(readlog) = 2
    /\ ~StoredAsContinuation(2)
    /\ is_next_entry_continuation(reader)
    /\ Len(written) = 4
    /\ ~StoredAsContinuation(4)

\* ------------------------------------------------------------------------
\* read_bytes as chunks are loaded
\* ------------------------------------------------------------------------

\* this step loaded a chunk: new or next read a header and its payload
ChunkLoaded ==
    /\ rstat' = "open"
    /\ reader'.input_file.pos # reader.input_file.pos

\* C13 as stated: read_bytes() never decreases and grows by exactly the payload
\* length each time a chunk is loaded
C13_ReadBytesCountsPayload ==
    [][/\ Reader_read_bytes(reader') >= Reader_read_bytes(reader)
       /\ ChunkLoaded =>
             Reader_read_bytes(reader') = Reader_read_bytes(reader) + Len(reader'.chunk)]_vars

\* C13: read_bytes() is the number of stream bytes consumed so far, the 8-byte
\* chunk headers included: it never decreases, it grows by exactly 8 plus the
\* payload length each time a chunk is loaded, and on an open reader it is the
\* stream position
C13_ReadBytesCountsStream ==
    [][/\ Reader_read_bytes(reader') >= Reader_read_bytes(reader)
       /\ ChunkLoaded =>
             Reader_read_bytes(reader') =
                 Reader_read_bytes(reader) + HEADER_SIZE + Len(reader'.chunk)
       /\ rstat' = "open" => Reader_read_bytes(reader') = reader'.input_file.pos]_vars

C13_Witness ==
    /\ rstat = "open"
    /\ tamper = NoTamper
    /\ Len(FramedChunks(file)) = 2
    /\ Reader_read_bytes(reader) = Len(file)
    /\ Len(readlog) = 3

\* ------------------------------------------------------------------------
\* Which samples write_entry stores as continuations
\* ------------------------------------------------------------------------

\* a sample at the position the game has reached whose ply and result may or
\* may not follow the last sample's
WriteOff ==
    /\ phase = "chains"
    /\ CanWrite
    /\ ~writer.is_first
    /\ \E ply \in {writer.last_entry.ply, (writer.last_entry.ply + 1) % 65536, 65535, 0},
          result \in Results :
          DoWrite(MakeEntry(pos, Head(book), 254, ply, result), "ok")
    /\ UNCHANGED <<arg, code, back, phase, free, wstat, cut, sessions, tamper, readerVars>>

\* a sample with the next ply and the negated result, but at the position of
\* the last sample instead of the position after its move
WriteRepeat ==
    /\ phase = "chains"
    /\ CanWrite
    /\ ~writer.is_first
    /\ LET last == writer.last_entry
           e == MakeEntry(last.pos, last.mv, 254, (last.ply + 1) % 65536,
                          WrappingNeg16(last.result))
           x == write_entry(writer, file, e, "ok")
       IN  /\ writer' = x.w
           /\ file' = x.file
           /\ call' = [op |-> "write_entry", res |-> x.res, inner |-> x.res]
           /\ written' = Append(written, e)
    /\ UNCHANGED <<pos, book, arg, code, back, phase, free, wstat, cut, sessions, tamper,
                   readerVars>>

NextCont == WriteStem \/ WriteCont \/ WriteOff \/ WriteRepeat

SpecCont == InitChains /\ [][NextCont]_vars

RECURSIVE Flatten(_)
Flatten(ss) == IF ss = <<>> THEN <<>> ELSE Head(ss) \o Flatten(Tail(ss))

\* the payload bytes produced so far: those of the chunks on the stream, then
\* the used part of the chunk buffer
Emitted(f, w) == Flatten(FramedChunks(f)) \o w.packed_entries

\* next follows last: negated result, ply one more (as a 16-bit count), and
\* the position last.pos becomes by last.mv
Follows(last, next) ==
    /\ last.result + next.result = 0
    /\ next.ply = (last.ply + 1) % 65536
    /\ next.pos = do_move(last.pos, last.mv)

\* the step added one ply to the current movetext and produced no other byte
AddedToMovetext ==
    /\ Emitted(file', writer') = Emitted(file, writer)
    /\ writer'.movelist.num_plies = writer.movelist.num_plies + 1

\* the step closed the chain (count and movetext) and produced the stem of e
ClosedChainWroteStem(e) ==
    /\ Emitted(file', writer') =
           Emitted(file, writer)
           \o (IF writer.is_first THEN <<>>
               ELSE U16ToBigEndian(writer.movelist.num_plies)
                    \o writer.movelist.writer.movetext)
           \o from_entry(e)
    /\ Len(from_entry(e)) = 32
    /\ writer'.movelist.num_plies = 0

Remaining(r) ==
    IF r.movelist_reader = <<>> THEN 0
    ELSE r.movelist_reader[1].num_plies - r.movelist_reader[1].num_read_plies

\* the stem and the 16-bit count stored at the reader's offset
StemAt(r) == unpack_entry(SubSeq(r.chunk, r.offset + 1, r.offset + PACKED_ENTRY_SIZE))
CountAt(r) ==
    U16FromBigEndian(SubSeq(r.chunk, r.offset + PACKED_ENTRY_SIZE + 1,
                            r.offset + PACKED_ENTRY_SIZE + 2), 0)

\* C15: after next() returned a stem whose stored count is p > 0, each of the
\* following p calls returns a sample that follows the one returned before it
\* (its position after its move, ply one more, negated result); the call after
\* those p reads a stem again, unless has_next() is false
C15_ChainOfContinuations ==
    [][readlog' # readlog =>
          IF Remaining(reader) > 0
          THEN /\ Follows(readlog[Len(readlog)], readlog'[Len(readlog')])
               /\ Remaining(reader') = Remaining(reader) - 1
          ELSE /\ readlog'[Len(readlog')] = StemAt(reader)
               /\ Remaining(reader') = CountAt(reader)]_vars

C15_Witness ==
    /\ rstat = "open"
    /\ Len(readlog) = 4
    /\ Follows(readlog[1], readlog[2])
    /\ Follows(readlog[2], readlog[3])
    /\ ~Follows(readlog[3], readlog[4])
    /\ Remaining(reader) = 0
    /\ Reader_has_next(reader)

\* ------------------------------------------------------------------------
\* One move through add_move_score and next_move_score
\* ------------------------------------------------------------------------

\* bits a BitWriter holds and bits a BitReader has consumed
BitsWritten(bw) == 8 * Len(bw.movetext) - bw.bits_left
BitsRead(rd) == 8 * rd.read_offset + (8 - rd.read_bits_left)

\* add_move_score of a legal move of the position reached, on an empty list:
\* the movetext, the two field widths and the encoding of the move
EncodeMove ==
    /\ phase = "walk"
    /\ \E m \in LegalMoves(pos) :
          /\ arg' = m
          /\ code' = [list |-> add_move_score(PackedMoveScoreList_new, pos, m, 0),
                      piece_bits |-> used_bits_safe(count(pieces_bb(pos, pos.stm))),
                      move_bits |-> used_bits_safe(calculate_move_encoding(pos, m)[2]),
                      move_id |-> calculate_move_encoding(pos, m)[1],
                      num_moves |-> calculate_move_encoding(pos, m)[2]]
    /\ phase' = "encoded_ply"
    /\ UNCHANGED <<back, chessVars, writerVars, readerVars>>

\* the reader's side: the piece index, then decode_move, and next_move_score
\* as a whole, on the same position and the movetext just written
DecodePly(mr, mt, x) ==
    [mv |-> next_move_score(mr, mt).mv,
     piece_bits |-> BitsRead(x.rd),
     move_bits |-> BitsRead(MoveOfPiece(mr, mt, x).rd) - BitsRead(x.rd),
     list |-> next_move_score(mr, mt).mr]

DecodeMove ==
    /\ phase = "encoded_ply"
    /\ back' = DecodePly(PackedMoveScoreListReader_new(MakeEntry(pos, Move_null, 0, 0, 0), 1),
                         code.list.writer.movetext,
                         extract_bits_le8(BitReader_new, code.list.writer.movetext,
                                          used_bits_safe(count(pieces_bb(pos, pos.stm)))))
    /\ phase' = "decoded_ply"
    /\ UNCHANGED <<arg, code, chessVars, writerVars, readerVars>>

NextMoveList == BookMove \/ FreeMove \/ EncodeMove \/ DecodeMove

SpecMoveList == InitChess /\ [][NextMoveList]_vars

\* C16: for a position and a move of the side to move, the decoder run on the
\* same position reads the piece index and the move index with the widths the
\* encoder wrote them with and returns the encoder's move: from, to, type and
\* promoted piece
C16_DecoderMirrorsEncoder ==
    /\ phase \in {"encoded_ply", "decoded_ply"} =>
          BitsWritten(code.list.writer) = code.piece_bits + code.move_bits + 5
    /\ phase = "decoded_ply" =>
          /\ back.mv = arg
          /\ back.piece_bits = code.piece_bits
          /\ back.move_bits = code.move_bits

C16_Witness ==
    /\ phase = "decoded_ply"
    /\ arg.mtype = EnPassant
    /\ pos.stm = Black
    /\ back.mv = arg
    /\ back.move_bits = 1
    /\ back.piece_bits = 4

\* the king's attack squares that own pieces do not occupy
KingTargets == attacks_king(king_sq(pos, pos.stm)) \ pieces_bb(pos, pos.stm)
OwnCastlingRights == pos.castling_rights \cap CastlingRights_color(pos.stm)

\* C17: with A the number of king attack squares free of own pieces, a king
\* move that is no castle gets the number of those squares below its
\* destination; long castle gets A; short castle gets A + 1 when the long right
\* is present too and A otherwise; the field takes used_bits(A + own castling
\* rights) bits; the decoder returns the castle side the encoder was given
C17_KingMoveIds ==
    (/\ phase \in {"encoded_ply", "decoded_ply"}
     /\ arg.from = king_sq(pos, pos.stm)) =>
        LET A == Cardinality(KingTargets)
            long == CastlingTraits_castling_rights(pos.stm, Long) \in pos.castling_rights
        IN  /\ arg.mtype # Castle =>
                  code.move_id = Cardinality({s \in KingTargets : s < arg.to})
            /\ (arg.mtype = Castle /\ arg.to \in {A1, A8}) => code.move_id = A
            /\ (arg.mtype = Castle /\ arg.to \in {H1, H8}) =>
                  code.move_id = IF long THEN A + 1 ELSE A
            /\ code.move_bits = used_bits_safe(A + Cardinality(OwnCastlingRights))
            /\ (phase = "decoded_ply" /\ code.move_id >= A) =>
                  (back.mv.mtype = Castle /\ back.mv.to = arg.to /\ back.mv.from = arg.from)

C17_Witness ==
    /\ phase = "decoded_ply"
    /\ arg = Move_castle(E8, H8)
    /\ Cardinality(OwnCastlingRights) = 2
    /\ code.move_id = Cardinality(KingTargets) + 1
    /\ back.mv = arg

\* ------------------------------------------------------------------------
\* Scores along a chain
\* ------------------------------------------------------------------------

\* the extreme scores, and those of test_compressed_writer_big_score_diff
ScoreSamples == {-32767, -31999, -1500, 0, 32767}

\* the stem of a game with one of the scores
WriteScoredStem ==
    /\ phase = "chains"
    /\ CanWrite
    /\ writer.is_first
    /\ \E score \in ScoreSamples : DoWrite(MakeEntry(pos, Head(book), score, 68, 0), "ok")
    /\ UNCHANGED <<arg, code, back, phase, free, wstat, cut, sessions, tamper, readerVars>>

\* the next sample of the game with one of the scores
WriteScoredCont ==
    /\ phase = "chains"
    /\ CanWrite
    /\ ~writer.is_first
    /\ \E score \in ScoreSamples :
          DoWrite(MakeEntry(pos, Head(book), score, writer.last_entry.ply + 1,
                            WrappingNeg16(writer.last_entry.result)), "ok")
    /\ UNCHANGED <<arg, code, back, phase, free, wstat, cut, sessions, tamper, readerVars>>

NextScore == WriteScoredStem \/ WriteScoredCont \/ Drop \/ OpenReader \/ ReadNext

SpecScore == InitChains /\ [][NextScore]_vars

\* zigzag of a signed 16-bit value, and the 5-bit groups a block-4
\* variable-length value takes
ZigZag(d) == IF d >= 0 THEN 2 * d ELSE -2 * d - 1
VleGroups(v) == IF v = 0 THEN 1 ELSE (BitLength(v) + 3) \div 4

\* the bits of the k-th sample in the movetext: piece index, move index, and
\* the score delta, which is score - last_score = score + previous score
PlyBits(k) ==
    used_bits_safe(count(pieces_bb(written[k].pos, written[k].pos.stm)))
    + used_bits_safe(calculate_move_encoding(written[k].pos, written[k].mv)[2])
    + 5 * VleGroups(ZigZag(AsI16((written[k].score + written[k - 1].score) % 65536)))

RECURSIVE ChainBits(_)
ChainBits(k) == IF k < 2 THEN 0 ELSE PlyBits(k) + ChainBits(k - 1)

\* C18: along a chain last_score starts at minus the stem's score and is minus
\* the score just written; each continuation adds zigzag((score - last_score)
\* mod 2^16) in 5-bit groups of a block-4 variable-length value; the reader
\* returns every score exactly, also when consecutive scores differ by more
\* than a signed 16-bit value holds
C18_ScoresAlongChain ==
    /\ (wstat = "live" /\ written # <<>>) =>
          /\ writer.movelist.last_score = -written[Len(written)].score
          /\ BitsWritten(writer.movelist.writer) = ChainBits(Len(written))
    /\ rstat = "open" =>
          /\ Len(readlog) <= Len(written)
          /\ \A i \in 1..Len(readlog) : readlog[i].score = written[i].score

C18_Witness ==
    /\ ReadDone
    /\ Len(readlog) = 3
    /\ readlog[1].score = 32767
    /\ readlog[2].score = 32767
    /\ readlog[3].score = -32767
    /\ written[3].score = -32767

\* ------------------------------------------------------------------------
\* BitWriter and BitReader on a sequence of groups
\* ------------------------------------------------------------------------

\* how many groups are appended to the BitWriter
MaxGroups == 3

\* fixed-width groups: every width up to 8, with all bits set or every other bit
FixedGroups ==
    UNION {{[kind |-> "le8", cnt |-> c, v |-> x] :
               x \in {Pow2(c) - 1, 85 % Pow2(c), 170 % Pow2(c)}} : c \in 0..8}

\* 16-bit values at the edges of one, two, three and four blocks
VleGroupsIn ==
    {[kind |-> "vle", cnt |-> SCORE_VLE_BLOCK_SIZE, v |-> x] : x \in {0, 15, 16, 4095, 4096, 65535}}

InitBits ==
    /\ arg = <<>> /\ code = BitWriter_new /\ back = [rd |-> BitReader_new, vals |-> <<>>]
    /\ phase = "bits_writing"
    /\ ChessIdle /\ WriterIdle /\ ReaderIdle

AddBits ==
    /\ phase = "bits_writing"
    /\ Len(arg) < MaxGroups
    /\ \E g \in FixedGroups :
          /\ code' = add_bits_le8(code, g.v, g.cnt)
          /\ arg' = Append(arg, g)
    /\ UNCHANGED <<back, phase, chessVars, writerVars, readerVars>>

AddVle ==
    /\ phase = "bits_writing"
    /\ Len(arg) < MaxGroups
    /\ \E g \in VleGroupsIn :
          /\ code' = add_bits_vle16(code, g.v, g.cnt)
          /\ arg' = Append(arg, g)
    /\ UNCHANGED <<back, phase, chessVars, writerVars, readerVars>>

\* a BitReader is started at the first byte of the movetext
StartReading ==
    /\ phase = "bits_writing"
    /\ code.movetext # <<>>
    /\ phase' = "bits_reading"
    /\ back' = [rd |-> BitReader_new, vals |-> <<>>]
    /\ UNCHANGED <<arg, code, chessVars, writerVars, readerVars>>

\* the reader is asked for the next group, with the width it was written with
ExtractNext ==
    /\ phase = "bits_reading"
    /\ Len(back.vals) < Len(arg)
    /\ LET g == arg[Len(back.vals) + 1]
           x == IF g.kind = "le8" THEN extract_bits_le8(back.rd, code.movetext, g.cnt)
                ELSE extract_vle16(back.rd, code.movetext, g.cnt)
       IN  back' = [rd |-> x.rd, vals |-> Append(back.vals, x.bits)]
    /\ UNCHANGED <<arg, code, phase, chessVars, writerVars, readerVars>>

NextBits == AddBits \/ AddVle \/ StartReading \/ ExtractNext

SpecBits == InitBits /\ [][NextBits]_vars

\* the bits a group takes: its width, or one 5-bit group per started block of
\* 4 bits of the value and at least one
GroupBits(g) ==
    IF g.kind = "le8" THEN g.cnt
    ELSE 5 * (IF g.v = 0 THEN 1 ELSE (BitLength(g.v) + 3) \div 4)

RECURSIVE SumBits(_)
SumBits(gs) == IF gs = <<>> THEN 0 ELSE GroupBits(Head(gs)) + SumBits(Tail(gs))

\* C19: the values a BitReader returns for the widths the groups were written
\* with are the values appended to the empty BitWriter, in order; a
\* variable-length value v takes max(1, ceil(bit length of v / 4)) groups of 5
\* bits
C19_BitReaderInvertsBitWriter ==
    /\ phase \in {"bits_writing", "bits_reading"} => BitsWritten(code) = SumBits(arg)
    /\ phase = "bits_reading" =>
          /\ \A i \in 1..Len(back.vals) : back.vals[i] = arg[i].v
          /\ BitsRead(back.rd) = SumBits(SubSeq(arg, 1, Len(back.vals)))

C19_Witness ==
    /\ phase = "bits_reading"
    /\ Len(back.vals) = 3
    /\ arg[1] = [kind |-> "le8", cnt |-> 3, v |-> 7]
    /\ arg[2] = [kind |-> "vle", cnt |-> 4, v |-> 65535]
    /\ arg[3] = [kind |-> "le8", cnt |-> 8, v |-> 255]
    /\ back.vals = <<7, 65535, 255>>

\* ------------------------------------------------------------------------
\* The offset after the last continuation of a chain
\* ------------------------------------------------------------------------

\* the step returned the last continuation of the active movetext
LastContinuationRead == readlog' # readlog /\ Remaining(reader) = 1

\* the bytes the reader moved on in its chunk; a chunk is left at its end
OffsetAdvance ==
    IF reader'.input_file = reader.input_file
    THEN reader'.offset - reader.offset
    ELSE Len(reader.chunk) - reader.offset

\* the writer's movetext of the chain of p continuations that ends at the
\* j-th sample written
MovetextOfChain(j, p) == MoveList(written, j - p, j).writer

\* C20: when the reader has decoded the last continuation of a chain, it
\* advances the chunk offset by the number of movetext bytes the writer emitted
\* for the chain, which is the chain's movetext bits rounded up to whole bytes,
\* and the stem that follows in the chunk is read where the writer placed it
C20_OffsetAfterChain ==
    [][LastContinuationRead =>
          LET j == Len(readlog')
              p == reader.movelist_reader[1].num_plies
              w == MovetextOfChain(j, p)
          IN  /\ OffsetAdvance = Len(w.movetext)
              /\ Len(w.movetext) = (BitsWritten(w) + 7) \div 8
              /\ (reader'.input_file = reader.input_file /\ Reader_has_next(reader')) =>
                    SubSeq(reader'.chunk, reader'.offset + 1,
                           reader'.offset + PACKED_ENTRY_SIZE) = from_entry(written[j + 1])]_vars

C20_Witness ==
    /\ rstat = "open"
    /\ Len(readlog) = 2
    /\ Len(written) >= 3
    /\ Follows(readlog[1], readlog[2])
    /\ Remaining(reader) = 0
    /\ Reader_has_next(reader)
    /\ reader.offset = PACKED_ENTRY_SIZE + 2 + Len(MovetextOfChain(2, 1).movetext)
    /\ SubSeq(reader.chunk, reader.offset + 1, reader.offset + PACKED_ENTRY_SIZE) = from_entry(written[3])

\* ------------------------------------------------------------------------
\* The ply and result word of a stem
\* ------------------------------------------------------------------------

\* the 2-bit zigzag code of a result
ResultBits(result) == IF result < 0 THEN (-2 * result) - 1 ELSE 2 * result

\* C21: for every 16-bit ply and every result in {-1, 0, 1}, bytes 28-29 of the
\* packed stem hold the big-endian word (zigzag(result) << 14) | (ply & 0x3FFF),
\* so the two top bits depend on the result alone, and unpacking the stem
\* returns that result whatever the ply is
C21_PlyResultWord ==
    /\ phase \in {"packed", "unpacked"} =>
          /\ U16FromBigEndian(code, 28) = (ResultBits(arg.result) * 16384) + (arg.ply % 16384)
          /\ U16FromBigEndian(code, 28) \div 16384 = ResultBits(arg.result)
    /\ phase = "unpacked" => back.result = arg.result

\* ------------------------------------------------------------------------
\* Games played with do_move, the move made kept beside the position
\* ------------------------------------------------------------------------

\* 1.d4 e5 2.dxe5 d5 3.h3 d4 4.h4 Qe7 5.a3 Kd8 6.e4: the pawn on d4 stands
\* beside the pawn that came to e4 and is pinned to its king by the queen on d1
LinePin ==
    <<Move_normal(11, 27), Move_normal(52, 36), Move_normal(27, 36), Move_normal(51, 35),
      Move_normal(15, 23), Move_normal(35, 27), Move_normal(23, 31), Move_normal(59, 52),
      Move_normal(8, 16), Move_normal(60, 59), Move_normal(12, 28)>>

GameBooks == Books \cup {LinePin}

InitGame ==
    /\ pos = Position_new /\ book \in GameBooks /\ free = FreePlies
    /\ arg = 0 /\ code = 0 /\ back = 0 /\ phase = "walk"
    /\ WriterIdle /\ ReaderIdle

\* do_move on the next move of the scripted game
PlayBook ==
    /\ phase \in {"walk", "played"}
    /\ book # <<>>
    /\ Head(book) \in LegalMoves(pos)
    /\ phase' = "played"
    /\ arg' = [pos |-> pos, mv |-> Head(book)]
    /\ pos' = do_move(pos, Head(book))
    /\ book' = Tail(book)
    /\ UNCHANGED <<free, code, back, writerVars, readerVars>>

\* do_move on any legal move, leaving the scripted game
PlayFree ==
    /\ phase \in {"walk", "played"}
    /\ free > 0
    /\ phase' = "played"
    /\ \E m \in LegalMoves(pos) :
          /\ arg' = [pos |-> pos, mv |-> m]
          /\ pos' = do_move(pos, m)
    /\ book' = <<>>
    /\ free' = free - 1
    /\ UNCHANGED <<code, back, writerVars, readerVars>>

NextGame == PlayBook \/ PlayFree

SpecGame == InitGame /\ [][NextGame]_vars

\* the move takes a pawn two squares along its file
DoublePush(p, mv) ==
    /\ piece_type(piece_at(p, mv.from)) = Pawn
    /\ mv.mtype = Normal
    /\ (mv.to - mv.from = 16 \/ mv.from - mv.to = 16)

Skipped(mv) == (mv.from + mv.to) \div 2

\* in q, a pawn of the side to move attacks ep and its capture there, played
\* as an en-passant move, does not leave its own king attacked
CanCaptureEnPassant(q, ep) ==
    \E sq \in pieces_bb_color(q, q.stm, Pawn) :
        /\ ep \in attacks_pawn(q.stm, sq)
        /\ ~is_checked(do_move([q EXCEPT !.enpassant = ep], Move_en_passant(sq, ep)), q.stm)

\* C22: after do_move the en-passant square is set exactly when the move was a
\* two-square pawn push and an enemy pawn attacking the skipped square could
\* capture en passant without leaving its own king attacked; it is then the
\* skipped square, and after every other move it is the none sentinel
C22_EnPassantOnlyWhenCapturable ==
    phase = "played" =>
        IF DoublePush(arg.pos, arg.mv) /\ CanCaptureEnPassant(pos, Skipped(arg.mv))
        THEN pos.enpassant = Skipped(arg.mv)
        ELSE pos.enpassant = SQ_NONE

C22_Witness ==
    /\ phase = "played"
    /\ arg.mv = Move_normal(12, 28)
    /\ piece_at(pos, 27) = MakePiece(Pawn, Black)
    /\ ~CanCaptureEnPassant(pos, 20)
    /\ pos.enpassant = SQ_NONE

\* the move took a piece: one stood on the target square, or a pawn was taken
\* en passant
IsCapture(p, mv) ==
    \/ (mv.mtype # Castle /\ piece_at(p, mv.to) # PieceNone)
    \/ mv.mtype = EnPassant

\* C23: after do_move the half-move clock is 0 when the move was a pawn move or
\* took a piece, whatever piece made the capture, and otherwise it is one more
\* than before the move
C23_HalfMoveClock ==
    phase = "played" =>
        IF piece_type(piece_at(arg.pos, arg.mv.from)) = Pawn \/ IsCapture(arg.pos, arg.mv)
        THEN pos.halfm = 0
        ELSE pos.halfm = arg.pos.halfm + 1

\* the pieces of a position: one king of each colour, the six piece-type
\* bitboards pairwise disjoint, the two colour bitboards disjoint and together
\* the union of the piece-type bitboards
BoardsConsistent(p) ==
    /\ \A c \in {White, Black} : Cardinality(p.bb_color[c] \cap p.bb[King]) = 1
    /\ \A a, b \in DOMAIN p.bb : (a # b) => (p.bb[a] \cap p.bb[b] = {})
    /\ p.bb_color[White] \cap p.bb_color[Black] = {}
    /\ p.bb_color[White] \cup p.bb_color[Black] = UNION {p.bb[a] : a \in DOMAIN p.bb}

\* the piece table names, on every square, the piece the bitboards hold there
TableAgrees(p) ==
    \A sq \in Squares :
        IF p.pieces[sq] = PieceNone
        THEN sq \notin (p.bb_color[White] \cup p.bb_color[Black])
                       \cup UNION {p.bb[a] : a \in DOMAIN p.bb}
        ELSE /\ sq \in p.bb[piece_type(p.pieces[sq])]
             /\ sq \in p.bb_color[piece_color(p.pieces[sq])]

\* C24: from the initial position, after any sequence of legal moves applied
\* with do_move the position has exactly one king of each colour, disjoint
\* piece-type bitboards, disjoint colour bitboards whose union is the union of
\* the piece-type bitboards, and a piece table that agrees with the bitboards
\* on every square
C24_BoardInvariants ==
    BoardsConsistent(pos) /\ TableAgrees(pos)

C24_Witness ==
    /\ phase = "played"
    /\ arg.mv.mtype = Promotion
    /\ IsCapture(arg.pos, arg.mv)
    /\ pos.pieces[arg.mv.to] = arg.mv.promoted
    /\ Cardinality(occupied(pos)) = Cardinality(occupied(arg.pos)) - 1
    /\ BoardsConsistent(pos) /\ TableAgrees(pos)

\* ------------------------------------------------------------------------
\* The first sample given to a new writer
\* ------------------------------------------------------------------------

FirstScores == {-32768, 0, 32767}
FirstPlies == {0, 1, 65535}

InitFirst ==
    /\ pos = Position_new /\ book \in Books /\ free = 0
    /\ arg = 0 /\ code = 0 /\ back = 0 /\ phase = "walk"
    /\ writer = Writer_new /\ wstat = "live" /\ file = <<>> /\ written = <<>>
    /\ call = NoCall /\ cut = 0 /\ sessions = 1 /\ tamper = NoTamper
    /\ ReaderIdle

DoFirstWrite(w, f, e) ==
    /\ writer' = write_entry(w, f, e, "ok").w
    /\ file' = write_entry(w, f, e, "ok").file
    /\ call' = [op |-> "write_entry", res |-> write_entry(w, f, e, "ok").res,
                inner |-> write_entry(w, f, e, "ok").res]
    /\ written' = Append(written, e)

\* write_entry on the new writer: any legal move of the position reached, with
\* any score, ply and result
WriteFirstAny ==
    /\ phase = "walk"
    /\ wstat = "live"
    /\ written = <<>>
    /\ \E mv \in LegalMoves(pos), score \in FirstScores, ply \in FirstPlies, result \in Results :
          /\ arg' = MakeEntry(pos, mv, score, ply, result)
          /\ DoFirstWrite(writer, file, MakeEntry(pos, mv, score, ply, result))
    /\ phase' = "first_written"
    /\ UNCHANGED <<code, back, chessVars, wstat, cut, sessions, tamper, readerVars>>

NextFirst == BookMove \/ WriteFirstAny

SpecFirst == InitFirst /\ [][NextFirst]_vars

\* C25: on a new writer the first sample given to write_entry is never taken
\* for a continuation of the placeholder sample, for any position, move, score,
\* 16-bit ply and result in {-1, 0, 1}: it is written as a stem at offset 0 of
\* the chunk buffer, with no chain trailer before it
C25_FirstSampleIsStem ==
    phase = "first_written" =>
        /\ call.res = "Ok"
        /\ writer.packed_entries = from_entry(arg)
        /\ writer.movelist.num_plies = 0
        /\ writer.movelist.writer.movetext = <<>>
        /\ writer.last_entry = arg
        /\ ~writer.is_first
        /\ file = <<>>

C25_Witness ==
    /\ phase = "first_written"
    /\ arg.ply = 0
    /\ arg.result = 0
    /\ arg.pos # Position_new
    /\ Len(writer.packed_entries) = PACKED_ENTRY_SIZE
    /\ written = <<arg>>

\* ------------------------------------------------------------------------
\* The chunk buffer of the writer
\* ------------------------------------------------------------------------

\* The room the chunk buffer has beyond the chunk-size threshold, scaled down
\* from the program's 10 KiB (compressed_writer.rs line 20) with the threshold;
\* like the program's it is larger than a stem and the 16-bit count.
MAX_MOVELIST_SIZE == 40

\* Stems that may be written in one run.
MaxStems == 2

\* the length of packed_entries: vec![0u8; SUGGESTED_CHUNK_SIZE + MAX_MOVELIST_SIZE]
BufferLen == SUGGESTED_CHUNK_SIZE + MAX_MOVELIST_SIZE

\* write_movelist indexes packed_entries[packed_size], [packed_size + 1] and
\* then the slice of the movetext; an index past the buffer panics
MovelistFits(w) ==
    packed_size(w) + 2
      + (IF w.movelist.num_plies > 0 THEN Len(w.movelist.writer.movetext) ELSE 0) <= BufferLen

\* write_entry indexes the slice of the stem at the packed size left after the
\* trailer and the append
StemFits(w) ==
    (IF packed_size(w) >= SUGGESTED_CHUNK_SIZE THEN 0 ELSE packed_size(w))
      + PACKED_ENTRY_SIZE <= BufferLen

\* a slice index of write_entry falls outside the chunk buffer
WriteEntryPanics(w, e) ==
    /\ ~is_continuation(w.last_entry, e)
    /\ IF w.is_first THEN ~StemFits(w)
       ELSE ~MovelistFits(w) \/ ~StemFits(write_movelist(w))

\* one call of write_entry with the stream in order
DoLongWrite(w, f, e) ==
    IF WriteEntryPanics(w, e)
    THEN /\ wstat' = "panic"
         /\ call' = [op |-> "write_entry", res |-> "panic", inner |-> "panic"]
         /\ UNCHANGED <<writer, file, pos, book>>
    ELSE /\ writer' = write_entry(w, f, e, "ok").w
         /\ file' = write_entry(w, f, e, "ok").file
         /\ call' = [op |-> "write_entry", res |-> "Ok", inner |-> "Ok"]
         /\ pos' = do_move(pos, e.mv)
         /\ book' = Tail(book)
         /\ UNCHANGED wstat

\* the next sample of the game as a continuation of the last one
WriteLongCont ==
    /\ wstat = "live"
    /\ book # <<>>
    /\ ~writer.is_first
    /\ DoLongWrite(writer, file,
                   MakeEntry(pos, Head(book), 10000, (writer.last_entry.ply + 1) % 65536,
                             WrappingNeg16(writer.last_entry.result)))
    /\ UNCHANGED <<arg, code, back, phase, free, written, cut, sessions, tamper, readerVars>>

\* the next sample of the game as the stem of a new chain
WriteLongStem ==
    /\ wstat = "live"
    /\ book # <<>>
    /\ cut < MaxStems
    /\ cut' = cut + 1
    /\ DoLongWrite(writer, file, MakeEntry(pos, Head(book), 10000, 68, 1))
    /\ UNCHANGED <<arg, code, back, phase, free, written, sessions, tamper, readerVars>>

\* Drop for the writer: flush_packed appends the trailer of the open chain
DropLong ==
    /\ wstat = "live"
    /\ IF packed_size(writer) > 0 /\ ~writer.is_first /\ ~MovelistFits(writer)
       THEN /\ wstat' = "panic"
            /\ call' = [op |-> "drop", res |-> "panic", inner |-> "panic"]
            /\ UNCHANGED <<writer, file>>
       ELSE /\ writer' = flush_packed(writer, file, "ok").w
            /\ file' = flush_packed(writer, file, "ok").file
            /\ call' = [op |-> "drop", res |-> "Unit", inner |-> "Ok"]
            /\ wstat' = "dropped"
    /\ UNCHANGED <<written, cut, sessions, tamper, codecVars, chessVars, readerVars>>

NextLong == WriteLongCont \/ WriteLongStem \/ DropLong

SpecLong == InitChains /\ [][NextLong]_vars

\* C26: for every sequence of write_entry calls every write into the chunk
\* buffer stays inside it: when the trailer of a chain is appended, the packed
\* size plus 2 plus the length of the movetext does not exceed the length of
\* the buffer, however many continuations the chain has and however full the
\* buffer is
C26_WritesStayInBuffer ==
    /\ wstat # "panic"
    /\ packed_size(writer) <= BufferLen

\* ------------------------------------------------------------------------
\* The writer after a chunk append that failed
\* ------------------------------------------------------------------------

\* the step is a call of write_entry or flush_and_end in which the append of
\* the chunk failed: at most the chunk header reached the stream
AppendFailed ==
    /\ wstat = "live"
    /\ wstat' \in {"failed", "ended"}
    /\ call'.inner = "Io"
    /\ packed_size(writer) > 0
    /\ Len(file') <= Len(file) + HEADER_SIZE

\* C27: when the append of a chunk fails inside write_entry or flush_and_end,
\* the chunk buffer (contents and length), the movetext and the last sample of
\* the writer are as they were before the call, so that a later successful
\* call emits the trailer of each chain once
C27_FailedAppendKeepsBuffer ==
    [][AppendFailed =>
          /\ writer'.packed_entries = writer.packed_entries
          /\ writer'.movelist = writer.movelist
          /\ writer'.last_entry = writer.last_entry]_vars

\* ------------------------------------------------------------------------
\* The end of a writer: flush_and_end, into_inner, drop
\* ------------------------------------------------------------------------

\* flush_and_end called again right after a flush_and_end that succeeded
FlushAgain ==
    /\ wstat = "ended"
    /\ call.op = "flush_and_end"
    /\ call.inner = "Ok"
    /\ writer' = flush_and_end(writer, file, "ok").w
    /\ file' = flush_and_end(writer, file, "ok").file
    /\ call' = [op |-> "flush_and_end_again", res |-> flush_and_end(writer, file, "ok").res,
                inner |-> flush_and_end(writer, file, "ok").inner]
    /\ UNCHANGED <<wstat, written, cut, sessions, tamper, codecVars, chessVars, readerVars>>

\* into_inner: `self.output_file.take().unwrap().into_inner()` leaves None in
\* output_file
IntoInner ==
    /\ wstat \in {"live", "ended"}
    /\ wstat' = "taken"
    /\ call' = [op |-> "into_inner", res |-> "Ok", inner |-> "Ok"]
    /\ UNCHANGED <<writer, file, written, cut, sessions, tamper, codecVars, chessVars, readerVars>>

\* Drop for a writer whose output_file is None: flush_packed with bytes in the
\* chunk buffer appends the trailer and then unwraps output_file
DropTaken ==
    /\ wstat = "taken"
    /\ IF packed_size(writer) > 0
       THEN /\ writer' = IF ~writer.is_first THEN write_movelist(writer) ELSE writer
            /\ wstat' = "panic"
            /\ call' = [op |-> "drop_taken", res |-> "panic", inner |-> "panic"]
       ELSE /\ writer' = writer
            /\ wstat' = "dropped"
            /\ call' = [op |-> "drop_taken", res |-> "Unit", inner |-> "Ok"]
    /\ UNCHANGED <<file, written, cut, sessions, tamper, codecVars, chessVars, readerVars>>

NextEnd ==
    \/ WriteStem
    \/ WriteCont
    \/ FlushAndEnd
    \/ FlushAgain
    \/ Resume
    \/ Drop
    \/ IntoInner
    \/ DropTaken

SpecEnd == InitChains /\ [][NextEnd]_vars

\* C29: after into_inner has taken the output stream out of a writer, the drop
\* of the writer completes without a panic and without a write, for every
\* sequence of write_entry calls before it, samples still in the chunk buffer
\* included
C29_DropAfterIntoInner ==
    call.op = "drop_taken" => (call.res # "panic" /\ wstat = "dropped")

\* C30: after a flush_and_end that succeeded, with no write_entry in between, a
\* second flush_and_end or the drop of the writer appends no byte to the
\* output, so the trailer of the last chain and the final chunk are in the
\* output once
C30_FlushAndEndIdempotent ==
    [][(/\ wstat = "ended"
        /\ call.op \in {"flush_and_end", "flush_and_end_again"}
        /\ call.inner = "Ok"
        /\ call'.op \in {"flush_and_end_again", "drop"})
       => (file' = file /\ packed_size(writer') = 0)]_vars

C30_Witness ==
    /\ call.op = "flush_and_end_again"
    /\ Len(written) = 2
    /\ writer.movelist.num_plies = 1
    /\ Len(FramedChunks(file)) = 1
    /\ FramedChunks(file)[1] = WholeChains(written)

\* ------------------------------------------------------------------------
\* Streams with a chunk shorter than a stem and its count
\* ------------------------------------------------------------------------

\* payloads too short to hold a stem and a count
ShortPayloads == {<<>>, <<7>>, [i \in 1 .. (PACKED_ENTRY_SIZE + 1) |-> 0]}

\* a framed chunk with a short payload is put on the stream, before the chunks
\* of the writer or after them
PutShort ==
    /\ rstat = "absent"
    /\ tamper = NoTamper
    /\ \/ (wstat = "live" /\ written = <<>>)
       \/ wstat = "dropped"
    /\ \E data \in ShortPayloads : file' = append(file, data, "ok").file
    /\ tamper' = [kind |-> "short", at |-> Len(file)]
    /\ UNCHANGED <<writer, wstat, written, call, cut, sessions,
                   codecVars, chessVars, readerVars>>

NextShort ==
    \/ WriteStem
    \/ WriteCont
    \/ Drop
    \/ PutShort
    \/ OpenReader
    \/ ReadNext

SpecShort == InitChains /\ [][NextShort]_vars

\* C28: in every reader state where has_next() holds and no movetext is
\* active, at least 34 bytes of the current chunk remain at the offset, so
\* next() does not read past the end of the chunk; this holds after open and
\* after each chunk that is loaded, whatever its payload length, 0 included
C28_StemFitsChunk ==
    /\ rstat # "panic"
    /\ (rstat = "open" /\ Reader_has_next(reader) /\ reader.movelist_reader = <<>>) =>
          reader.offset + PACKED_ENTRY_SIZE + 2 <= Len(reader.chunk)

====
